---- MODULE Spec2Model ----
(***************************************************************************)
(* Model of the PRISM backend (src/backend/main.py): the chunker, the      *)
(* structured-output handling of the LLM-backed endpoints, and the upload  *)
(* path that writes Document records and vector records.                   *)
(*                                                                         *)
(* Three specifications share the module:                                  *)
(*   SpecChunk  chunk_text run statement by statement on bounded inputs    *)
(*   SpecLLM    one LLM-backed request at a time, the model's reply drawn  *)
(*              from all bounded token sequences                           *)
(*   SpecStore  concurrent upload_pdfs requests on the document store and  *)
(*              the vector index                                           *)
(***************************************************************************)
EXTENDS Integers, Sequences, FiniteSets, TLC

VARIABLES
    \* chunk_text(text, chunk_size, overlap), main.py 302-327
    text, chunk_size, overlap, chunks, start, cpc,
    \* one structured-output call site: which one, where it is, the model's
    \* raw reply, the text handed to json.loads, whether the LLM call raised,
    \* the LLM calls made, the card attempt, how the request ended and the
    \* object it ended up using
    flow, rpc, reply, extracted, raised, llm_calls, attempt, status, result,
    \* documents_collection, the Pinecone index, notebooks' document_count,
    \* the uuid4 source, and the upload_pdfs requests in progress
    documents, index, document_count, next_id, req,
    \* the PDF files under UPLOADS_DIR, the delete_document or delete_notebook
    \* request in progress, and the ensure_document_chunks call in progress
    files, del, ens,
    \* the retrieval request in progress: ask_question, generate_quiz,
    \* generate_mock_test or generate_note
    ret,
    \* quizzes_store and mock_tests_store, the last call on them (the tail of
    \* generate_quiz or generate_mock_test, submit_quiz, submit_mock_test or
    \* clear_all) with its response, and the generate_doomscroll_cards request
    quizzes_store, mock_tests_store, art, dsc

chunkVars == <<text, chunk_size, overlap, chunks, start, cpc>>
llmVars == <<flow, rpc, reply, extracted, raised, llm_calls, attempt, status, result>>
storeVars == <<documents, index, document_count, next_id, req, files, del, ens, ret>>
artVars == <<quizzes_store, mock_tests_store, art, dsc>>
vars == <<chunkVars, llmVars, storeVars, artVars>>
\* what each component leaves alone
notChunk == <<llmVars, storeVars, artVars>>
notLLM == <<chunkVars, storeVars, artVars>>
notStore == <<chunkVars, llmVars, artVars>>
notUpload == <<del, ens, ret, notStore>>

\* no object produced (yet) by a call site
NoResult == [src |-> "none", fields |-> [none |-> TRUE]]

Min(a, b) == IF a < b THEN a ELSE b
Max(a, b) == IF a > b THEN a ELSE b

(***************************************************************************)
(* Bounds                                                                  *)
(***************************************************************************)
\* longest text given to chunk_text
MaxLen == 5
\* largest chunk_size and overlap given to chunk_text
MaxSize == 3

\* longest model reply, in tokens
MaxReply == 4
\* longest text extracted from an uploaded PDF
MaxFileLen == 3
\* most files in one upload_pdfs request
MaxFiles == 2
\* most documents ever created (uuid4 values drawn)
MaxDocs == 2

Chars == {"a", "b"}
Texts == UNION {[1..n -> Chars] : n \in 0..MaxLen}

(***************************************************************************)
(* chunk_text                                                              *)
(***************************************************************************)
\* Python's s[a:b] on a sequence (0-based, negative indices count from the
\* end, both ends clamped to the sequence).
ClampIndex(n, a) == IF a < 0 THEN Max(a + n, 0) ELSE Min(a, n)

PySlice(s, a, b) ==
    LET lo == ClampIndex(Len(s), a)
        hi == ClampIndex(Len(s), b)
    IN  IF hi <= lo THEN <<>> ELSE SubSeq(s, lo + 1, hi)

\* mutant of NextStart: the stride ignores the overlap
NextStart_NoOverlap(s, size, ov) == s + size

\* line 325: start += chunk_size - overlap
NextStart(s, size, ov) == s + size - ov

\* mutant of ChunkWindow: the window is one character short
ChunkWindow_Short(t, s, size) == PySlice(t, s, s + size - 1)

\* lines 322-323: end = start + chunk_size; chunk = text[start:end]
ChunkWindow(t, s, size) == PySlice(t, s, s + size)

\* lines 317-319: chunks = [], start = 0, text_length = len(text)
ChunkEnter ==
    /\ cpc = "call"
    /\ chunks' = <<>>
    /\ start' = 0
    /\ cpc' = "loop"
    /\ UNCHANGED <<text, chunk_size, overlap, notChunk>>

\* lines 321-325: one iteration of the while loop.  The loop has no exit but
\* its condition; the model stops following a call after MaxLen + 1
\* iterations, one more than any call whose start advances can make.
ChunkLoop ==
    /\ cpc = "loop"
    /\ start < Len(text)
    /\ Len(chunks) <= MaxLen
    /\ chunks' = Append(chunks, ChunkWindow(text, start, chunk_size))
    /\ start' = NextStart(start, chunk_size, overlap)
    /\ UNCHANGED <<text, chunk_size, overlap, cpc, notChunk>>

\* lines 321, 327: the loop condition fails, return chunks
ChunkReturn ==
    /\ cpc = "loop"
    /\ ~(start < Len(text))
    /\ cpc' = "done"
    /\ UNCHANGED <<text, chunk_size, overlap, chunks, start, notChunk>>

\* the other components at rest
LLMIdle ==
    /\ flow = "none" /\ rpc = "idle" /\ reply = <<>> /\ extracted = <<>>
    /\ raised = FALSE /\ llm_calls = 0 /\ attempt = 0
    /\ status = "pending" /\ result = NoResult

NoRequest ==
    [pc |-> "idle", notebook_id |-> "none", nfiles |-> 0, k |-> 0,
     doc_id |-> 0, filename |-> "none", chunks |-> <<>>, vectors |-> <<>>,
     i |-> 0, status |-> "none", error |-> "none"]

\* the upload_pdfs requests that can be in flight at once
Requests == {"r1", "r2"}

Notebooks == {"n1", "n2"}

NoDelete ==
    [pc |-> "idle", kind |-> "none", doc_id |-> 0, notebook_id |-> "none",
     index_failed |-> FALSE, status |-> "none"]

NoFilter == [notebook_id |-> "none", has_doc_id |-> FALSE, doc_id_in |-> {}]

NoRetrieval ==
    [handler |-> "none", pc |-> "idle", notebook_id |-> "none", document_ids |-> {},
     num |-> 0, num_queries |-> 0, queries |-> 0, filter |-> NoFilter, top_k |-> 0,
     matches |-> <<>>, all_chunks |-> <<>>, context |-> <<>>, sources |-> <<>>,
     llm_calls |-> 0, status |-> "pending", detail |-> "none", answer |-> "none"]

NoEnsure ==
    [pc |-> "idle", key |-> 0, doc |-> <<>>, chunks |-> <<>>, result |-> <<>>,
     reads |-> 0, writes |-> 0, extract_failed |-> FALSE, write_failed |-> FALSE]

StoreIdle ==
    /\ documents = <<>>
    /\ index = <<>>
    /\ document_count = [n \in Notebooks |-> 0]
    /\ next_id = 1
    /\ req = [r \in Requests |-> NoRequest]
    /\ files = <<>>
    /\ del = NoDelete
    /\ ens = NoEnsure
    /\ ret = NoRetrieval

NoBody == [none |-> TRUE]

NoCall ==
    [handler |-> "none", status |-> "none", id |-> 0, found |-> FALSE,
     llm_calls |-> 0, analysis_calls |-> 0, body |-> NoBody]

NoCards ==
    [pc |-> "idle", count |-> 0, all_chunks |-> <<>>, cards |-> <<>>,
     card_type_index |-> 0, chunk_index |-> 0, attempts |-> 0, max_attempts |-> 0,
     attempted |-> <<>>, message |-> "none"]

ArtifactIdle ==
    /\ quizzes_store = <<>>
    /\ mock_tests_store = <<>>
    /\ art = NoCall
    /\ dsc = NoCards

ChunkIdle ==
    /\ text = <<>> /\ chunk_size = 1 /\ overlap = 0
    /\ chunks = <<>> /\ start = 0 /\ cpc = "idle"

InitChunk ==
    /\ LLMIdle
    /\ StoreIdle
    /\ ArtifactIdle
    /\ text \in Texts
    /\ chunk_size \in 1..MaxSize
    /\ overlap \in 0..MaxSize
    /\ chunks = <<>>
    /\ start = 0
    /\ cpc = "call"

NextChunk == ChunkEnter \/ ChunkLoop \/ ChunkReturn

SpecChunk == InitChunk /\ [][NextChunk]_vars

(***************************************************************************)
(* Model replies and JSON                                                  *)
(*                                                                         *)
(* A reply is a sequence of tokens.  "{", "}", "[", "]" are the brackets;  *)
(* "num" is a JSON scalar that is not a string (75, null, true); "txt" is  *)
(* commentary that is not JSON ("Sure!"); "fence" and "fence_json" are the   *)
(* code fence markers, three backticks alone and followed by json; every   *)
(* other token is one object member with a string or  *)
(* number value, named by its key ("score" is the member "score": 80).     *)
(* Whitespace and the commas between members and elements are not tokens.  *)
(***************************************************************************)
Flows == {"quiz", "mock", "theory", "code", "interview", "card"}

\* the keys each call site's prompt asks for
Keys(f) ==
    CASE f = "quiz"      -> {"question", "options"}
      [] f = "mock"      -> {"theory_questions", "coding_questions"}
      [] f = "theory"    -> {"score", "feedback"}
      [] f = "code"      -> {"score", "feedback"}
      [] f = "interview" -> {"overall_score", "strengths"}
      [] f = "card"      -> {"title", "content"}

AllKeys == UNION {Keys(f) : f \in Flows}

Tokens(f) == {"{", "}", "[", "]", "num", "txt", "fence", "fence_json"} \cup Keys(f)

Replies(f) == UNION {[1..n -> Tokens(f)] : n \in 0..MaxReply}

\* a parsed JSON value
Scalar == [kind |-> "scalar", keys |-> {}, items |-> <<>>]
Object(ks) == [kind |-> "object", keys |-> ks, items |-> <<>>]
Array(vs) == [kind |-> "array", keys |-> {}, items |-> vs]

ParseFail == [ok |-> FALSE, next |-> 0, val |-> Scalar]

\* json.loads(s): the value that starts at token i, and where it ends
RECURSIVE ParseValue(_, _), ParseMembers(_, _, _), ParseElements(_, _, _)
ParseValue(s, i) ==
    IF i > Len(s) THEN ParseFail
    ELSE CASE s[i] = "num" -> [ok |-> TRUE, next |-> i + 1, val |-> Scalar]
           [] s[i] = "{"   -> ParseMembers(s, i + 1, {})
           [] s[i] = "["   -> ParseElements(s, i + 1, <<>>)
           [] OTHER        -> ParseFail

ParseMembers(s, i, ks) ==
    IF i > Len(s) THEN ParseFail
    ELSE IF s[i] = "}" THEN [ok |-> TRUE, next |-> i + 1, val |-> Object(ks)]
    ELSE IF s[i] \in AllKeys THEN ParseMembers(s, i + 1, ks \cup {s[i]})
    ELSE ParseFail

ParseElements(s, i, vs) ==
    IF i > Len(s) THEN ParseFail
    ELSE IF s[i] = "]" THEN [ok |-> TRUE, next |-> i + 1, val |-> Array(vs)]
    ELSE LET v == ParseValue(s, i)
         IN  IF v.ok THEN ParseElements(s, v.next, Append(vs, v.val)) ELSE ParseFail

\* mutant of json_loads: text after the first value is ignored
json_loads_Prefix(s) ==
    LET v == ParseValue(s, 1)
    IN  [ok |-> v.ok, val |-> v.val]

\* json.loads: the whole text must be one value (JSONDecodeError otherwise)
json_loads(s) ==
    LET v == ParseValue(s, 1)
    IN  [ok |-> v.ok /\ v.next = Len(s) + 1, val |-> v.val]

FirstIndex(s, tok) ==
    IF \E i \in 1..Len(s) : s[i] = tok
    THEN CHOOSE i \in 1..Len(s) : s[i] = tok /\ \A j \in 1..(i - 1) : s[j] # tok
    ELSE 0

LastIndex(s, tok) ==
    IF \E i \in 1..Len(s) : s[i] = tok
    THEN CHOOSE i \in 1..Len(s) : s[i] = tok /\ \A j \in (i + 1)..Len(s) : s[j] # tok
    ELSE 0

\* re.search with the greedy pattern "open, any characters, close" (lines
\* 900, 1169, 1295, 1386, 2120): the leftmost opening bracket up to the last
\* closing bracket after it
re_search(s, open, close) ==
    LET a == FirstIndex(s, open)
        b == LastIndex(s, close)
    IN  IF a > 0 /\ b > a
        THEN [matched |-> TRUE, group |-> SubSeq(s, a, b)]
        ELSE [matched |-> FALSE, group |-> <<>>]

\* json_match = re.search(...); if json_match: text = json_match.group()
ExtractJson(s, open, close) ==
    LET m == re_search(s, open, close)
    IN  IF m.matched THEN m.group ELSE s

DropHead(s) == SubSeq(s, 2, Len(s))
DropLast(s) == SubSeq(s, 1, Len(s) - 1)

\* submit_mock_test, lines 1289-1292 and 1380-1383: a leading "fence_json", then
\* a leading "fence", then a trailing "fence" are removed
StripFences(s) ==
    LET s1 == IF s # <<>> /\ s[1] = "fence_json" THEN DropHead(s) ELSE s
        s2 == IF s1 # <<>> /\ s1[1] = "fence" THEN DropHead(s1) ELSE s1
    IN  IF s2 # <<>> /\ s2[Len(s2)] = "fence" THEN DropLast(s2) ELSE s2

\* generate_card_with_llm, lines 2301-2303: only when the reply starts with a
\* fence; the pattern (three backticks, "jso", an optional "n") needs the
\* "jso" after the backticks, so it
\* removes "fence_json" and leaves a bare "fence" in place
CardStripFences(s) ==
    IF s # <<>> /\ s[1] \in {"fence", "fence_json"}
    THEN LET s1 == IF s[1] = "fence_json" THEN DropHead(s) ELSE s
         IN  IF s1 # <<>> /\ s1[Len(s1)] = "fence" THEN DropLast(s1) ELSE s1
    ELSE s

\* the values the model's members carry
ModelValue(k) ==
    CASE k = "score" -> 80
      [] k = "overall_score" -> 90
      [] k = "feedback" -> "ok"
      [] k = "strengths" -> <<"clear answers">>
      [] OTHER -> "model text"

ModelObject(ks) == [src |-> "model", fields |-> [k \in ks |-> ModelValue(k)]]
ModelParsed(v) == [src |-> "model", fields |-> [parsed |-> v]]

(***************************************************************************)
(* The structured-output call sites                                        *)
(***************************************************************************)
\* generate_card_with_llm(card_type, content, max_retries: int = 2)
max_retries == 2

\* lines 1308-1313
TheoryFallback ==
    [src |-> "fallback",
     fields |-> [score |-> 50,
                 feedback |-> "recorded but could not be fully evaluated",
                 covered_points |-> <<>>,
                 missing_points |-> <<>>]]

\* lines 1399-1406
CodeFallback ==
    [src |-> "fallback",
     fields |-> [score |-> 50,
                 correctness |-> "syntax errors or incomplete implementation",
                 code_quality |-> "Needs improvement",
                 test_results |-> <<>>,
                 feedback |-> "The code appears incomplete or has errors",
                 suggestions |-> <<"Complete the function implementation",
                                   "Fix any syntax errors",
                                   "Test with provided test cases">>]]

\* lines 2125-2133
InterviewFallback ==
    [src |-> "fallback",
     fields |-> [overall_score |-> 75,
                 communication_score |-> 75,
                 technical_score |-> 70,
                 problem_solving_score |-> 75,
                 strengths |-> <<"Participated actively">>,
                 improvements |-> <<"Practice more technical concepts">>,
                 recommendations |-> <<"Study common interview questions">>]]

Http500(x) == [status |-> "http500", result |-> NoResult, extracted |-> x]
Ok(res, x) == [status |-> "ok", result |-> res, extracted |-> x]

\* generate_quiz, lines 896-937.  len(questions) raises TypeError on a
\* scalar; the comprehension over a dict walks its keys (strings) and
\* q["question"] raises TypeError; over a list, every item must be an object
\* with "question" and "options" (KeyError or TypeError otherwise).  Every
\* exception ends in HTTPException(500).
QuizQuestionsUsable(v) ==
    CASE v.kind = "scalar" -> FALSE
      [] v.kind = "object" -> v.keys = {}
      [] v.kind = "array"  ->
            \A i \in 1..Len(v.items) :
                /\ v.items[i].kind = "object"
                /\ {"question", "options"} \subseteq v.items[i].keys

QuizOutcome(r) ==
    LET x == ExtractJson(r, "[", "]")
        p == json_loads(x)
    IN  IF ~p.ok THEN Http500(x)
        ELSE IF QuizQuestionsUsable(p.val) THEN Ok(ModelParsed(p.val), x)
        ELSE Http500(x)

\* generate_mock_test, lines 1166-1226.  test_data.get raises AttributeError
\* on a list or a scalar.
MockTestOutcome(r) ==
    LET x == ExtractJson(r, "{", "}")
        p == json_loads(x)
    IN  IF ~p.ok THEN Http500(x)
        ELSE IF p.val.kind = "object" THEN Ok(ModelParsed(p.val), x)
        ELSE Http500(x)

\* mutant of Evaluation: a parsed object is used as it is, the fallback only
\* fills the place of a reply that is not an object
Evaluation_Partial(v, fallback) ==
    IF v.kind = "object" THEN ModelObject(v.keys) ELSE fallback

\* lines 1300-1313 and 1391-1406 once json.loads has returned a list or an
\* object: the required-field test, and the fallback when it fails
Evaluation(v, fallback) ==
    IF v.kind = "object" /\ "score" \in v.keys /\ "feedback" \in v.keys
    THEN ModelObject(v.keys)
    ELSE fallback

\* submit_mock_test, grading one theory answer (lines 1286-1324) or one
\* coding answer (lines 1377-1418).  json.JSONDecodeError and ValueError are
\* caught; "score" not in evaluation raises TypeError on a number, true,
\* false or null, which only the handler's last except clause catches.
GradeOutcome(r, fallback) ==
    LET x == ExtractJson(StripFences(r), "{", "}")
        p == json_loads(x)
    IN  IF ~p.ok THEN Ok(fallback, x)
        ELSE IF p.val.kind = "scalar" THEN Http500(x)
        ELSE Ok(Evaluation(p.val, fallback), x)

\* end_interview, lines 2117-2160: json.loads runs only on a match and its
\* JSONDecodeError is caught by the last except clause
InterviewOutcome(r) ==
    LET m == re_search(r, "{", "}")
        p == json_loads(m.group)
    IN  IF ~m.matched THEN Ok(InterviewFallback, r)
        ELSE IF ~p.ok THEN Http500(m.group)
        ELSE Ok(ModelObject(p.val.keys), m.group)

\* generate_card_with_llm, lines 2298-2315: the card; or an exception
\* (JSONDecodeError from json.loads, TypeError from the "in" test on a
\* scalar) for the except clauses; or, for a list or an object without
\* "title" and "content", nothing: control falls off the end of the loop body
CardOutcome(r) ==
    LET x == CardStripFences(r)
        p == json_loads(x)
    IN  IF ~p.ok \/ p.val.kind = "scalar"
        THEN [status |-> "except", result |-> NoResult, extracted |-> x]
        ELSE IF p.val.kind = "object" /\ {"title", "content"} \subseteq p.val.keys
        THEN Ok(ModelObject(p.val.keys), x)
        ELSE [status |-> "falls_through", result |-> NoResult, extracted |-> x]

\* mutant of Attempts: one attempt more than max_retries
Attempts_OneMore == 0..max_retries

\* line 2286: for attempt in range(max_retries)
Attempts == 0..(max_retries - 1)

\* the LLM call returned r and the request ended as out says
Finish(r, out) ==
    /\ reply' = r
    /\ extracted' = out.extracted
    /\ raised' = FALSE
    /\ llm_calls' = llm_calls + 1
    /\ status' = out.status
    /\ result' = out.result
    /\ rpc' = "done"
    /\ UNCHANGED <<flow, attempt, notLLM>>

\* the LLM call raised (a timeout, a transport error) and nothing caught it
\* before the handler's last except clause
FinishRaised ==
    /\ raised' = TRUE
    /\ llm_calls' = llm_calls + 1
    /\ status' = "http500"
    /\ rpc' = "done"
    /\ UNCHANGED <<flow, reply, extracted, attempt, result, notLLM>>

GenerateQuiz ==
    /\ flow = "quiz" /\ rpc = "call"
    /\ \/ \E r \in Replies("quiz") : Finish(r, QuizOutcome(r))
       \/ FinishRaised

GenerateMockTest ==
    /\ flow = "mock" /\ rpc = "call"
    /\ \/ \E r \in Replies("mock") : Finish(r, MockTestOutcome(r))
       \/ FinishRaised

GradeTheory ==
    /\ flow = "theory" /\ rpc = "call"
    /\ \/ \E r \in Replies("theory") : Finish(r, GradeOutcome(r, TheoryFallback))
       \/ FinishRaised

GradeCode ==
    /\ flow = "code" /\ rpc = "call"
    /\ \/ \E r \in Replies("code") : Finish(r, GradeOutcome(r, CodeFallback))
       \/ FinishRaised

EndInterview ==
    /\ flow = "interview" /\ rpc = "call"
    /\ \/ \E r \in Replies("interview") : Finish(r, InterviewOutcome(r))
       \/ FinishRaised

\* lines 2317-2329: after an attempt that returned no card.  Both except
\* clauses return None on the last attempt (attempt == max_retries - 1) and
\* continue otherwise; an attempt that fell off the end of the loop body goes
\* to the next iteration, and the loop's end is return None.  response_text
\* is rebound by the next attempt, so the model forgets it here.
CardNoCard(viaExcept) ==
    /\ reply' = <<>>
    /\ extracted' = <<>>
    /\ result' = NoResult
    /\ IF (viaExcept /\ attempt = max_retries - 1) \/ attempt + 1 \notin Attempts
       THEN /\ rpc' = "done"
            /\ status' = "ok"
            /\ attempt' = attempt
       ELSE /\ rpc' = "call"
            /\ status' = "pending"
            /\ attempt' = attempt + 1
    /\ UNCHANGED <<flow, notLLM>>

\* lines 2286-2298: the next iteration calls the LLM, which answers or raises
GenerateCardCall ==
    /\ flow = "card" /\ rpc = "call"
    /\ attempt \in Attempts
    /\ llm_calls' = llm_calls + 1
    /\ \/ /\ \E r \in Replies("card") : reply' = r
          /\ raised' = FALSE
          /\ rpc' = "parse"
          /\ UNCHANGED <<flow, extracted, attempt, status, result, notLLM>>
       \/ /\ raised' = TRUE
          /\ CardNoCard(TRUE)

\* lines 2300-2327: the reply is stripped, parsed and validated
GenerateCardParse ==
    /\ flow = "card" /\ rpc = "parse"
    /\ UNCHANGED <<llm_calls, raised>>
    /\ LET out == CardOutcome(reply)
       IN  IF out.status = "ok"
           THEN /\ extracted' = out.extracted
                /\ status' = "ok"
                /\ result' = out.result
                /\ rpc' = "done"
                /\ UNCHANGED <<flow, reply, attempt, notLLM>>
           ELSE CardNoCard(out.status = "except")

InitLLM ==
    /\ ChunkIdle
    /\ StoreIdle
    /\ ArtifactIdle
    /\ flow \in Flows
    /\ rpc = "call"
    /\ reply = <<>> /\ extracted = <<>>
    /\ raised = FALSE /\ llm_calls = 0 /\ attempt = 0
    /\ status = "pending" /\ result = NoResult

NextLLM ==
    \/ GenerateQuiz
    \/ GenerateMockTest
    \/ GradeTheory
    \/ GradeCode
    \/ EndInterview
    \/ GenerateCardCall
    \/ GenerateCardParse

SpecLLM == InitLLM /\ [][NextLLM]_vars

(***************************************************************************)
(* upload_pdfs on the document store and the vector index                  *)
(*                                                                         *)
(* A request is followed from one store or index call to the next, so that *)
(* requests interleave at every call: this covers the await points of the  *)
(* coroutine and several server processes sharing the store.  The document *)
(* store and the notebook lookup are taken to work; the embedding model    *)
(* and the vector index can fail on any call.  Document ids are uuid4      *)
(* values, modelled as numbers never drawn twice; the vector id            *)
(* "{doc_id}_{i}" is the pair <<doc_id, i>>, which the format maps         *)
(* one-to-one because a uuid4 string holds no underscore.                  *)
(***************************************************************************)
\* chunk_text(text) as upload_pdfs calls it; the defaults chunk_size=1000 and
\* overlap=200 and batch_size = 100 are scaled down to the texts of the model
default_chunk_size == 2
default_overlap == 1
batch_size == 2

RECURSIVE chunk_text_from(_, _, _, _)
chunk_text_from(t, s, size, ov) ==
    IF s < Len(t)
    THEN <<ChunkWindow(t, s, size)>> \o chunk_text_from(t, NextStart(s, size, ov), size, ov)
    ELSE <<>>

chunk_text(t) == chunk_text_from(t, 0, default_chunk_size, default_overlap)

FileTexts == UNION {[1..n -> Chars] : n \in 0..MaxFileLen}
FileNames == {"a.pdf", "b.txt"}
EndsWithPdf(name) == name = "a.pdf"

\* mutant of VectorRecord: the metadata carries the 1-based position
VectorRecord_OneBased(d, n, name, i, chunk) ==
    [id |-> <<d, i>>,
     metadata |-> [doc_id |-> d, notebook_id |-> n, filename |-> name,
                   chunk_index |-> i + 1, text |-> chunk]]

\* lines 601-611: the vector of chunk i (0-based) of document d
VectorRecord(d, n, name, i, chunk) ==
    [id |-> <<d, i>>,
     metadata |-> [doc_id |-> d, notebook_id |-> n, filename |-> name,
                   chunk_index |-> i, text |-> chunk]]

\* lines 597-611: the vectors of the chunks whose embedding did not fail, in
\* chunk order (get_embedding returns None on failure and the chunk is skipped)
RECURSIVE BuildVectors(_, _, _, _, _, _)
BuildVectors(d, n, name, cs, i, failed) ==
    IF i >= Len(cs) THEN <<>>
    ELSE (IF i \in failed THEN <<>> ELSE <<VectorRecord(d, n, name, i, cs[i + 1])>>)
         \o BuildVectors(d, n, name, cs, i + 1, failed)

\* index.upsert(vectors=batch): each record replaces the one with its id
Upsert(idx, batch) ==
    [id \in DOMAIN idx \cup {batch[j].id : j \in 1..Len(batch)} |->
        IF \E j \in 1..Len(batch) : batch[j].id = id
        THEN batch[CHOOSE j \in 1..Len(batch) :
                     /\ batch[j].id = id
                     /\ \A j2 \in (j + 1)..Len(batch) : batch[j2].id # id].metadata
        ELSE idx[id]]

\* lines 739-749: index.query(filter={"notebook_id": n, "doc_id": {"$in": ds}},
\* include_metadata=True): the metadata of the records that pass the filter
\* (top_k, which ranks them by similarity and keeps five, is left out)
Query(idx, n, ds) ==
    {idx[id] : id \in {x \in DOMAIN idx : idx[x].notebook_id = n /\ idx[x].doc_id \in ds}}

\* uuid4 values still to be drawn by the requests in flight
RECURSIVE FilesAhead(_)
FilesAhead(rs) ==
    IF rs = {} THEN 0
    ELSE LET r == CHOOSE x \in rs : TRUE
         IN  (IF req[r].pc \in {"idle", "done"} THEN 0 ELSE req[r].nfiles - req[r].k)
             + FilesAhead(rs \ {r})

\* notebooks_collection.update_one({"_id": n}, {"$inc": {"document_count": by}}):
\* a notebook that no longer exists matches nothing
Inc(counts, n, by) ==
    IF n \in DOMAIN counts THEN [counts EXCEPT ![n] = @ + by] ELSE counts

\* line 580: notebook_dir / f"{doc_id}.pdf"
PdfPath(n, d) == <<n, d>>

Fail500(q, why) == [q EXCEPT !.pc = "done", !.status = "http500", !.error = why]

\* lines 550-560: the request arrives; a notebook that is not found raises
\* HTTPException(404) inside the try, which except Exception turns into 500
UploadStart(r) ==
    /\ req[r].pc = "idle"
    /\ \E n \in Notebooks \cup {"missing"}, nf \in 1..MaxFiles :
          /\ next_id - 1 + FilesAhead(Requests \ {r}) + nf <= MaxDocs
          /\ LET q == [NoRequest EXCEPT !.notebook_id = n, !.nfiles = nf]
             IN  req' = [req EXCEPT ![r] =
                           IF n \in DOMAIN document_count THEN [q EXCEPT !.pc = "file"]
                           ELSE Fail500(q, "notebook")]
    /\ UNCHANGED <<documents, index, document_count, next_id, files, notUpload>>

\* lines 562-594: the next file is checked, read, extracted, chunked, given
\* an id and stored as a Document record
UploadFile(r) ==
    /\ req[r].pc = "file"
    /\ req[r].k < req[r].nfiles
    /\ \E name \in FileNames, t \in FileTexts :
          IF ~EndsWithPdf(name)
          THEN /\ t = <<>>
               /\ req' = [req EXCEPT ![r] = Fail500(@, "file")]
               /\ UNCHANGED <<documents, next_id, files>>
          ELSE LET cs == chunk_text(t)
                   pdf_path == PdfPath(req[r].notebook_id, next_id)
                   doc_data == [doc_id |-> next_id,
                                notebook_id |-> req[r].notebook_id,
                                filename |-> name,
                                chunks_count |-> Len(cs),
                                chunks |-> cs,
                                file_path |-> pdf_path]
               IN  /\ files' = (pdf_path :> t) @@ files
                   /\ documents' = (next_id :> doc_data) @@ documents
                   /\ next_id' = next_id + 1
                   /\ req' = [req EXCEPT ![r] =
                                [@ EXCEPT !.pc = "embed", !.doc_id = next_id,
                                          !.filename = name, !.chunks = cs,
                                          !.vectors = <<>>, !.i = 0]]
    /\ UNCHANGED <<index, document_count, notUpload>>

\* lines 596-611: every chunk is embedded; the chunks in failed are those for
\* which get_embedding returned None
UploadEmbed(r) ==
    /\ req[r].pc = "embed"
    /\ \E failed \in SUBSET (0..(Len(req[r].chunks) - 1)) :
          req' = [req EXCEPT ![r] =
                    [@ EXCEPT !.pc = "upsert", !.i = 0,
                              !.vectors = BuildVectors(req[r].doc_id, req[r].notebook_id,
                                                       req[r].filename, req[r].chunks,
                                                       0, failed)]]
    /\ UNCHANGED <<documents, index, document_count, next_id, files, notUpload>>

\* lines 615-617: one batch is written, or index.upsert raises and except
\* Exception ends the request with 500
UploadUpsert(r) ==
    /\ req[r].pc = "upsert"
    /\ req[r].i < Len(req[r].vectors)
    /\ \/ /\ index' = Upsert(index, SubSeq(req[r].vectors, req[r].i + 1,
                                            Min(req[r].i + batch_size, Len(req[r].vectors))))
          /\ req' = [req EXCEPT ![r] = [@ EXCEPT !.i = @ + batch_size]]
       \/ /\ req' = [req EXCEPT ![r] = Fail500(@, "upsert")]
          /\ UNCHANGED index
    /\ UNCHANGED <<documents, document_count, next_id, files, notUpload>>

\* lines 619-624: all batches written; the document is reported and the loop
\* goes to the next file
UploadFileDone(r) ==
    /\ req[r].pc = "upsert"
    /\ req[r].i >= Len(req[r].vectors)
    /\ req' = [req EXCEPT ![r] =
                 [@ EXCEPT !.pc = "file", !.k = @ + 1, !.doc_id = 0,
                           !.filename = "none", !.chunks = <<>>,
                           !.vectors = <<>>, !.i = 0]]
    /\ UNCHANGED <<documents, index, document_count, next_id, files, notUpload>>

\* lines 626-635: after the last file the notebook's document_count grows by
\* len(files) and the request succeeds
UploadCount(r) ==
    /\ req[r].pc = "file"
    /\ req[r].k = req[r].nfiles
    /\ document_count' = Inc(document_count, req[r].notebook_id, req[r].nfiles)
    /\ req' = [req EXCEPT ![r] = [@ EXCEPT !.pc = "done", !.status = "ok"]]
    /\ UNCHANGED <<documents, index, next_id, files, notUpload>>

InitStore ==
    /\ ChunkIdle
    /\ LLMIdle
    /\ StoreIdle
    /\ ArtifactIdle

\* one step of the upload_pdfs request r
Upload(r) ==
    \/ UploadStart(r)
    \/ UploadFile(r)
    \/ UploadEmbed(r)
    \/ UploadUpsert(r)
    \/ UploadFileDone(r)
    \/ UploadCount(r)

NextStore == \E r \in Requests : Upload(r)

SpecStore == InitStore /\ [][NextStore]_vars

(***************************************************************************)
(* delete_document and delete_notebook                                     *)
(*                                                                         *)
(* One deletion is followed from call to call while an upload_pdfs request *)
(* runs beside it.  The document store, the notebook store and the file    *)
(* system are taken to work; index.delete can raise.                       *)
(***************************************************************************)
Restrict(f, S) == [x \in S |-> f[x]]

\* index.delete(filter={field: value}): the records the filter leaves
IndexDelete(idx, field, value) ==
    Restrict(idx, {id \in DOMAIN idx : idx[id][field] # value})

\* mutant of IndexDeleteRaised: the exception ends the request
IndexDeleteRaised_Abort(q, next) ==
    [q EXCEPT !.pc = "done", !.index_failed = TRUE, !.status = "http500"]

\* lines 714-715 and 533-534: a bare except passes over whatever index.delete
\* raised and the handler goes on to its next call
IndexDeleteRaised(q, next) == [q EXCEPT !.pc = next, !.index_failed = TRUE]

\* lines 698-703: find_one; a document that is not found raises
\* HTTPException(404) inside the try, which except Exception turns into 500
DeleteDocumentFind ==
    /\ del.pc = "idle"
    /\ \E d \in 1..MaxDocs :
          del' = IF d \in DOMAIN documents
                 THEN [NoDelete EXCEPT !.pc = "dvectors", !.kind = "document",
                                       !.doc_id = d,
                                       !.notebook_id = documents[d].notebook_id]
                 ELSE [NoDelete EXCEPT !.pc = "done", !.kind = "document",
                                       !.doc_id = d, !.status = "http500"]
    /\ UNCHANGED <<documents, index, document_count, next_id, req, files, ens, ret, notStore>>

\* lines 705-715: the PDF is unlinked if it is there, then the vectors are
\* deleted by filter; whatever index.delete raises is passed over
DeleteDocumentVectors ==
    /\ del.pc = "dvectors"
    /\ files' = Restrict(files, DOMAIN files \ {PdfPath(del.notebook_id, del.doc_id)})
    /\ \/ /\ index' = IndexDelete(index, "doc_id", del.doc_id)
          /\ del' = [del EXCEPT !.pc = "drecord"]
       \/ /\ UNCHANGED index
          /\ del' = IndexDeleteRaised(del, "drecord")
    /\ UNCHANGED <<documents, document_count, next_id, req, ens, ret, notStore>>

\* line 718: delete_one({"doc_id": doc_id})
DeleteDocumentRecord ==
    /\ del.pc = "drecord"
    /\ documents' = Restrict(documents, DOMAIN documents \ {del.doc_id})
    /\ del' = [del EXCEPT !.pc = "dcount"]
    /\ UNCHANGED <<index, document_count, next_id, req, files, ens, ret, notStore>>

\* lines 720-726: the notebook's document_count goes down by one
DeleteDocumentCount ==
    /\ del.pc = "dcount"
    /\ document_count' = Inc(document_count, del.notebook_id, -1)
    /\ del' = [del EXCEPT !.pc = "done", !.status = "ok"]
    /\ UNCHANGED <<documents, index, next_id, req, files, ens, ret, notStore>>

\* lines 526-528: delete_many({"notebook_id": notebook_id})
DeleteNotebookDocs ==
    /\ del.pc = "idle"
    /\ \E n \in Notebooks \cup {"missing"} :
          /\ documents' = Restrict(documents,
                                   {d \in DOMAIN documents : documents[d].notebook_id # n})
          /\ del' = [NoDelete EXCEPT !.pc = "nvectors", !.kind = "notebook",
                                     !.notebook_id = n]
    /\ UNCHANGED <<index, document_count, next_id, req, files, ens, ret, notStore>>

\* lines 530-534: the notebook's vectors are deleted by filter; whatever
\* index.delete raises is passed over
DeleteNotebookVectors ==
    /\ del.pc = "nvectors"
    /\ \/ /\ index' = IndexDelete(index, "notebook_id", del.notebook_id)
          /\ del' = [del EXCEPT !.pc = "nrecord"]
       \/ /\ UNCHANGED index
          /\ del' = IndexDeleteRaised(del, "nrecord")
    /\ UNCHANGED <<documents, document_count, next_id, req, files, ens, ret, notStore>>

\* lines 536-545: the notebook is deleted; deleted_count == 0 raises
\* HTTPException(404) inside the try, which except Exception turns into 500
DeleteNotebookRecord ==
    /\ del.pc = "nrecord"
    /\ document_count' = Restrict(document_count, DOMAIN document_count \ {del.notebook_id})
    /\ del' = [del EXCEPT !.pc = "done",
                          !.status = IF del.notebook_id \in DOMAIN document_count
                                     THEN "ok" ELSE "http500"]
    /\ UNCHANGED <<documents, index, next_id, req, files, ens, ret, notStore>>

delete_document ==
    \/ DeleteDocumentFind
    \/ DeleteDocumentVectors
    \/ DeleteDocumentRecord
    \/ DeleteDocumentCount

delete_notebook ==
    \/ DeleteNotebookDocs
    \/ DeleteNotebookVectors
    \/ DeleteNotebookRecord

InitDelete == InitStore

NextDelete ==
    \/ Upload("r1")
    \/ delete_document
    \/ delete_notebook

SpecDelete == InitDelete /\ [][NextDelete]_vars

(***************************************************************************)
(* ensure_document_chunks, as generate_doomscroll_cards calls it on the    *)
(* documents it fetched, beside an upload_pdfs request.  The store starts  *)
(* with one Document record of the kind the function exists for: written   *)
(* before chunks were cached on the record, so that any of its optional    *)
(* fields can be missing and its PDF may or may not be on disk.            *)
(***************************************************************************)
\* doc.get(field), with the given default when the field is missing
Get(doc, field, default) == IF field \in DOMAIN doc THEN doc[field] ELSE default

Has(doc, field) == field \in DOMAIN doc

\* the fields a record may carry beside its filename
OptionalFields ==
    {<<>>} \cup {("notebook_id" :> "n1") @@ ("doc_id" :> 1)} \cup {("doc_id" :> 1)}

CachedFields ==
    {<<>>, ("chunks_count" :> 2), ("chunks" :> <<>>) @@ ("chunks_count" :> 0)}
    \cup {("chunks" :> chunk_text(t)) @@ ("chunks_count" :> Len(chunk_text(t))) :
              t \in {<<"a", "b">>}}

PathFields == {<<>>, ("file_path" :> PdfPath("n1", 1)), ("file_path" :> PdfPath("n1", 0))}

\* what the PDF of that record holds when it is on disk: no text, or text
LegacyTexts == {<<>>, <<"a", "b">>, <<"b">>}

LegacyDocs ==
    {("filename" :> "a.pdf") @@ ids @@ cached @@ path :
         ids \in OptionalFields, cached \in CachedFields, path \in PathFields}

\* lines 369-376: the path of the PDF, or <<>> when it cannot be resolved
ResolvePath(doc) ==
    IF Has(doc, "file_path") THEN doc.file_path
    ELSE IF Has(doc, "notebook_id") /\ Has(doc, "doc_id")
         THEN PdfPath(doc.notebook_id, doc.doc_id)
         ELSE <<>>

\* mutant of UpdateFields: the count of the record is left as it was
UpdateFields_ChunksOnly(doc, cs) ==
    [f \in DOMAIN doc \cup {"chunks"} |-> IF f = "chunks" THEN cs ELSE doc[f]]

\* line 397 and the $set of line 400: chunks and chunks_count are set together
UpdateFields(doc, cs) ==
    [f \in DOMAIN doc \cup {"chunks", "chunks_count"} |->
        IF f = "chunks" THEN cs
        ELSE IF f = "chunks_count" THEN Len(cs)
        ELSE doc[f]]

EnsureReturn(q, cs) == [q EXCEPT !.pc = "done", !.result = cs]

\* mutant of UpdateRaised: the exception costs the caller its chunks
UpdateRaised_Empty(q, cs) == EnsureReturn([q EXCEPT !.write_failed = TRUE], <<>>)

\* lines 401-404: an exception of update_one is printed and the chunks are
\* returned all the same
UpdateRaised(q, cs) == EnsureReturn([q EXCEPT !.write_failed = TRUE], cs)

\* lines 2336-2349: the caller fetches the documents of the notebook and hands
\* one of them to ensure_document_chunks
EnsureFetch ==
    /\ ens.pc = "idle"
    /\ \E k \in DOMAIN documents :
          ens' = [NoEnsure EXCEPT !.pc = "call", !.key = k, !.doc = documents[k]]
    /\ UNCHANGED <<documents, index, document_count, next_id, req, files, del, ret, notStore>>

\* mutant of ExtractRaised: the exception leaves the function
ExtractRaised_Propagates(q) ==
    [q EXCEPT !.pc = "raised", !.reads = @ + 1, !.extract_failed = TRUE]

\* lines 382-387: an exception of open or extract_text_from_pdf is printed
\* and [] is returned
ExtractRaised(q) ==
    EnsureReturn([q EXCEPT !.reads = @ + 1, !.extract_failed = TRUE], <<>>)

\* mutant of CachedChunks: the cache is never trusted
CachedChunks_Ignored(doc) == <<>>

\* line 364: doc.get("chunks") or []
CachedChunks(doc) == Get(doc, "chunks", <<>>)

\* lines 364-393: cached chunks are returned as they are; otherwise the PDF
\* is located, read and chunked, and every failure on the way returns []
EnsureRun ==
    /\ ens.pc = "call"
    /\ LET cached == CachedChunks(ens.doc)
           pdf_path == ResolvePath(ens.doc)
       IN  IF cached # <<>>
           THEN ens' = EnsureReturn(ens, cached)
           ELSE IF pdf_path = <<>> \/ pdf_path \notin DOMAIN files
           THEN ens' = EnsureReturn(ens, <<>>)
           ELSE \/ ens' = ExtractRaised(ens)
                \/ LET cs == chunk_text(files[pdf_path])
                   IN  ens' = IF cs = <<>>
                              THEN EnsureReturn([ens EXCEPT !.reads = @ + 1], <<>>)
                              ELSE [ens EXCEPT !.pc = "write", !.reads = @ + 1,
                                               !.chunks = cs]
    /\ UNCHANGED <<documents, index, document_count, next_id, req, files, del, ret, notStore>>

\* lines 395-404: the chunks are written back on the record, an exception of
\* update_one is printed and passed over, and the chunks are returned
EnsureWriteBack ==
    /\ ens.pc = "write"
    /\ \/ /\ documents' = IF ens.key \in DOMAIN documents
                          THEN [documents EXCEPT
                                  ![ens.key] = UpdateFields(documents[ens.key], ens.chunks)]
                          ELSE documents
          /\ ens' = EnsureReturn([ens EXCEPT !.writes = @ + 1], ens.chunks)
       \/ /\ UNCHANGED documents
          /\ ens' = UpdateRaised(ens, ens.chunks)
    /\ UNCHANGED <<index, document_count, next_id, req, files, del, ret, notStore>>

ensure_document_chunks == EnsureRun \/ EnsureWriteBack

InitDocs ==
    /\ ChunkIdle
    /\ LLMIdle
    /\ ArtifactIdle
    /\ \E doc \in LegacyDocs : documents = (1 :> doc)
    /\ files \in {<<>>} \cup {(PdfPath("n1", 1) :> t) : t \in LegacyTexts}
    /\ next_id = 2
    /\ index = <<>>
    /\ document_count = [n \in Notebooks |-> 0]
    /\ req = [r \in Requests |-> NoRequest]
    /\ del = NoDelete
    /\ ens = NoEnsure
    /\ ret = NoRetrieval

NextDocs ==
    \/ Upload("r1")
    \/ EnsureFetch
    \/ ensure_document_chunks

SpecDocs == InitDocs /\ [][NextDocs]_vars

(***************************************************************************)
(* Retrieval: ask_question, generate_quiz, generate_mock_test and          *)
(* generate_note query the index.  The stores hold what upload_pdfs left   *)
(* there for up to two documents; the request is given when the behaviour  *)
(* starts.  A query returns the top_k records that pass its filter, in an  *)
(* order that depends on the embedding of the query text, which is random  *)
(* in the sampling loops: any order and any choice of top_k records.       *)
(***************************************************************************)
\* the Document record and the vectors upload_pdfs stores for a PDF (lines
\* 585-617), with no embedding failing
StoredDocument(d, n, t) ==
    [doc_id |-> d, notebook_id |-> n, filename |-> "a.pdf",
     chunks_count |-> Len(chunk_text(t)), chunks |-> chunk_text(t),
     file_path |-> PdfPath(n, d)]

StoredVectors(d, n, t) == BuildVectors(d, n, "a.pdf", chunk_text(t), 0, {})

\* three chunks, or the one chunk every document then shares
CorpusTexts == {<<"a", "b", "a">>, <<"b">>}

\* the stores: empty, one document whose embeddings all failed, or two
\* documents in the same notebook or in two notebooks
Corpora ==
    {[documents |-> <<>>, index |-> <<>>],
     [documents |-> (1 :> StoredDocument(1, "n1", <<"b">>)), index |-> <<>>]}
    \cup
    {[documents |-> (1 :> StoredDocument(1, "n1", t1)) @@ (2 :> StoredDocument(2, n, t2)),
      index |-> Upsert(Upsert(<<>>, StoredVectors(1, "n1", t1)), StoredVectors(2, n, t2))] :
         t1 \in CorpusTexts, t2 \in {<<"b">>}, n \in Notebooks}

Handlers == {"ask_question", "generate_quiz", "generate_mock_test", "generate_note"}

\* num_questions, and each of num_theory, num_coding and num_reorder, are
\* ints the request model does not validate
MaxQuestions == 6
MaxPerKind == 3
Counts(h) ==
    IF h = "generate_quiz" THEN {-1, 0, 1, MaxQuestions}
    ELSE IF h = "generate_mock_test"
    THEN {nt + nc + nr : nt \in {-1, 0, 1, MaxPerKind}, nc \in {0, MaxPerKind},
                         nr \in {0, MaxPerKind}}
    ELSE {0}

\* lines 746, 832, 1066, 1675: top_k of each handler's query
ask_top_k == 5
quiz_top_k == 3
mock_top_k == 3
note_top_k == 10

\* lines 823 and 1059: the most queries a sampling loop makes
quiz_max_queries == 10
mock_max_queries == 15

\* mutant of BuildFilter: the notebook of the filter is not the request's
BuildFilter_FixedNotebook(n, ds) ==
    [notebook_id |-> "n1", has_doc_id |-> ds # {}, doc_id_in |-> ds]

\* lines 739-741, 816-818, 1052-1054, 1663-1665: the notebook of the request,
\* and a doc_id allow-list when document_ids is given and not empty
BuildFilter(n, ds) ==
    [notebook_id |-> n, has_doc_id |-> ds # {}, doc_id_in |-> ds]

\* the metadata of the records that pass the filter
FilterMatches(idx, f) ==
    Query(idx, f.notebook_id,
          IF f.has_doc_id THEN f.doc_id_in ELSE {idx[id].doc_id : id \in DOMAIN idx})

\* index.query(top_k=k, filter=f, include_metadata=True).matches: k of the
\* records that pass the filter (all of them if there are fewer), in any order
TopK(S, k) ==
    {m \in [1..Min(k, Cardinality(S)) -> S] :
        \A i, j \in DOMAIN m : i # j => m[i] # m[j]}

Texts_of(pool) == {pool[i].text : i \in 1..Len(pool)}

\* mutant of AppendNew: every match is appended
RECURSIVE AppendNew_All(_, _, _)
AppendNew_All(pool, matches, i) ==
    IF i > Len(matches) THEN pool
    ELSE AppendNew_All(Append(pool, [text |-> matches[i].text,
                                     filename |-> matches[i].filename]), matches, i + 1)

\* lines 837-842 and 1071-1076: a match is appended unless an entry of
\* all_chunks already has its text
RECURSIVE AppendNew(_, _, _)
AppendNew(pool, matches, i) ==
    IF i > Len(matches) THEN pool
    ELSE AppendNew(IF matches[i].text \in Texts_of(pool) THEN pool
                   ELSE Append(pool, [text |-> matches[i].text,
                                      filename |-> matches[i].filename]),
                   matches, i + 1)

\* range(n) runs max(n, 0) times
RangeLen(n) == Max(n, 0)

\* mutant of NumQueries: the loop runs until the pool holds the target
NumQueries_Uncapped(n, cap) == n * 2

\* lines 823 and 1059: min(n * 2, cap)
NumQueries(n, cap) == Min(n * 2, cap)

\* the request ends with an HTTP error; detail names what was raised
RetFail(q, code, why) == [q EXCEPT !.pc = "done", !.status = code, !.detail = why]

ContextOf(seq) == [i \in 1..Len(seq) |-> seq[i].text]

RetUnchanged ==
    UNCHANGED <<documents, index, document_count, next_id, req, files, del, ens, notStore>>

DocCount(n) == Cardinality({d \in DOMAIN documents : documents[d].notebook_id = n})

\* mutant of NoMatchReply: the empty context goes to the LLM
NoMatchReply_AsksLLM(q) == [q EXCEPT !.pc = "llm"]

\* lines 751-755: the fixed answer and no sources
NoMatchReply(q) ==
    [q EXCEPT !.pc = "done", !.status = "ok", !.answer = "fixed", !.sources = <<>>]

\* lines 735-755: the query of ask_question; no match is answered at once
\* with the fixed sentence and no sources, before any prompt is built
AskQuery ==
    /\ ret.handler = "ask_question" /\ ret.pc = "start"
    /\ LET f == BuildFilter(ret.notebook_id, ret.document_ids)
           q == [ret EXCEPT !.filter = f, !.top_k = ask_top_k, !.queries = @ + 1]
       IN  \/ ret' = RetFail(q, "http500", "index")
           \/ \E m \in TopK(FilterMatches(index, f), ask_top_k) :
                 ret' = IF m = <<>>
                        THEN NoMatchReply(q)
                        ELSE [q EXCEPT !.pc = "llm", !.matches = m,
                                       !.context = ContextOf(m),
                                       !.sources = [i \in 1..Len(m) |->
                                                      [filename |-> m[i].filename,
                                                       chunk_index |-> m[i].chunk_index]]]
    /\ RetUnchanged

\* lines 770-799: the prompt goes to the LLM and its answer is returned with
\* the sources; an exception of the client becomes HTTP 500
AskAnswer ==
    /\ ret.handler = "ask_question" /\ ret.pc = "llm"
    /\ \/ ret' = [ret EXCEPT !.pc = "done", !.status = "ok", !.answer = "llm",
                             !.llm_calls = @ + 1]
       \/ ret' = RetFail([ret EXCEPT !.llm_calls = @ + 1], "http500", "llm")
    /\ RetUnchanged

\* lines 810-823 and 1046-1059: a notebook without documents is refused (400,
\* which except Exception turns into 500); otherwise the filter and the number
\* of queries are fixed
SampleStart(h, cap) ==
    /\ ret.handler = h /\ ret.pc = "start"
    /\ ret' = IF DocCount(ret.notebook_id) = 0
              THEN RetFail(ret, "http500", "no_documents")
              ELSE [ret EXCEPT !.pc = "loop",
                               !.filter = BuildFilter(ret.notebook_id, ret.document_ids),
                               !.num_queries = NumQueries(ret.num, cap)]
    /\ RetUnchanged

\* lines 825-842 and 1061-1076: one turn of the loop: a query with a random
\* text, and its matches appended to all_chunks unless their text is there
SampleQuery(h, k) ==
    /\ ret.handler = h /\ ret.pc = "loop"
    /\ ret.queries < RangeLen(ret.num_queries)
    /\ LET q == [ret EXCEPT !.top_k = k, !.queries = @ + 1]
       IN  \/ ret' = RetFail(q, "http500", "index")
           \/ \E m \in TopK(FilterMatches(index, ret.filter), k) :
                 ret' = [q EXCEPT !.matches = m,
                                  !.all_chunks = AppendNew(ret.all_chunks, m, 1)]
    /\ RetUnchanged

\* lines 844-850 and 1078-1081: after the loop the chunks become the context
\* of the prompt (generate_quiz keeps the first num_questions * 2); no chunk
\* at all is refused (400, turned into 500)
SampleEnd(h, limit) ==
    /\ ret.handler = h /\ ret.pc = "loop"
    /\ ret.queries >= RangeLen(ret.num_queries)
    /\ LET selected == PySlice(ret.all_chunks, 0, limit)
       IN  ret' = IF selected = <<>>
                  THEN RetFail(ret, "http500", "no_content")
                  ELSE [ret EXCEPT !.pc = "done", !.status = "ok",
                                   !.context = ContextOf(selected)]
    /\ RetUnchanged

QuizStart == SampleStart("generate_quiz", quiz_max_queries)
QuizQuery == SampleQuery("generate_quiz", quiz_top_k)
QuizSelect ==
    SampleEnd("generate_quiz", Min(Len(ret.all_chunks), ret.num * 2))

MockStart == SampleStart("generate_mock_test", mock_max_queries)
MockQuery == SampleQuery("generate_mock_test", mock_top_k)
MockSelect == SampleEnd("generate_mock_test", Len(ret.all_chunks))

\* lines 1661-1688: the query of generate_note; a failed embedding is HTTP
\* 500 and no match is HTTP 404, both raised as they are
NoteQuery ==
    /\ ret.handler = "generate_note" /\ ret.pc = "start"
    /\ LET f == BuildFilter(ret.notebook_id, ret.document_ids)
           q == [ret EXCEPT !.filter = f, !.top_k = note_top_k]
       IN  \/ ret' = RetFail(q, "http500", "embedding")
           \/ ret' = RetFail([q EXCEPT !.queries = @ + 1], "http500", "index")
           \/ \E m \in TopK(FilterMatches(index, f), note_top_k) :
                 ret' = IF m = <<>>
                        THEN RetFail([q EXCEPT !.queries = @ + 1], "http404", "no_content")
                        ELSE [q EXCEPT !.pc = "done", !.status = "ok",
                                       !.queries = @ + 1, !.matches = m,
                                       !.context = ContextOf(m)]
    /\ RetUnchanged

InitRetrieve ==
    /\ ChunkIdle
    /\ LLMIdle
    /\ ArtifactIdle
    /\ \E c \in Corpora : documents = c.documents /\ index = c.index
    /\ document_count = [n \in Notebooks |-> DocCount(n)]
    /\ next_id = 3
    /\ req = [r \in Requests |-> NoRequest]
    /\ files = <<>>
    /\ del = NoDelete
    /\ ens = NoEnsure
    /\ \E h \in Handlers, n \in Notebooks, ds \in {{}, {2}, {1, 2}} :
        \E c \in Counts(h) :
          ret = [NoRetrieval EXCEPT !.handler = h, !.pc = "start",
                                    !.notebook_id = n, !.document_ids = ds,
                                    !.num = c]

NextRetrieve ==
    \/ AskQuery
    \/ AskAnswer
    \/ QuizStart
    \/ QuizQuery
    \/ QuizSelect
    \/ MockStart
    \/ MockQuery
    \/ MockSelect
    \/ NoteQuery

SpecRetrieve == InitRetrieve /\ [][NextRetrieve]_vars

\* the stores whose documents have one chunk each: a query has at most two
\* records to return
SingleChunkCorpora == {c \in Corpora : Cardinality(DOMAIN c.index) <= 2}

InitRetrieveSingleChunk ==
    /\ InitRetrieve
    /\ \E c \in SingleChunkCorpora : documents = c.documents /\ index = c.index

\* the loops run on: every request that can take a step takes one
FairRetrieve ==
    /\ InitRetrieveSingleChunk
    /\ [][NextRetrieve]_vars
    /\ WF_vars(NextRetrieve)

(***************************************************************************)
(* quizzes_store and mock_tests_store                                      *)
(*                                                                         *)
(* The tail of generate_quiz and of generate_mock_test, from json.loads to *)
(* the response, then submit_quiz, submit_mock_test and clear_all.  No     *)
(* handler awaits between its first and its last line here, so each is one *)
(* step.  The parsed reply of the model is an input: whatever json.loads   *)
(* returned goes into the store unvalidated.  created_at, document_ids,    *)
(* topic_performance and the weak and strong topics carry no decision and  *)
(* are left out.                                                           *)
(***************************************************************************)
\* artifacts generated in one run
MaxArtifacts == 2
\* answers of one kind in one submission
MaxAnswers == 2

\* everything but the two stores, the call on them, and the uuid4 source
artFrame == <<documents, index, document_count, req, files, del, ens, ret, dsc,
             chunkVars, llmVars>>

SeqsUpTo(S, n) == UNION {[1..k -> S] : k \in 0..n}

\* (a / b) * 100 and the like are kept as exact quotients
Ratio(n, d) == [num |-> n, den |-> d]
RatioLeq(a, b) == a.num * b.den <= b.num * a.den
RatioEq(a, b) == a.num * b.den = b.num * a.den

RECURSIVE SumRatios(_)
SumRatios(rs) ==
    IF rs = <<>> THEN Ratio(0, 1)
    ELSE LET rest == SumRatios(Tail(rs))
         IN  Ratio(Head(rs).num * rest.den + rest.num * Head(rs).den,
                   Head(rs).den * rest.den)

\* s[i] of a Python list: a negative index counts from the end
PyIndexOK(s, i) == -Len(s) <= i /\ i < Len(s)
PyIndex(s, i) == IF i >= 0 THEN s[i + 1] ELSE s[Len(s) + i + 1]

\* question objects of a quiz as the model writes them
QuizQuestion(t, c) ==
    [question |-> t, options |-> "options", correct_answer |-> c,
     explanation |-> "why", topic |-> "T"]
QuizQuestionBare(t, c) == [question |-> t, options |-> "options", correct_answer |-> c]
QuizQuestionNoOptions(t, c) == [question |-> t, correct_answer |-> c]

\* json.loads(response_text) of generate_quiz
QuizReplies ==
    { <<>>,
      <<QuizQuestion("q1", 0)>>,
      <<QuizQuestion("q1", 0), QuizQuestionBare("q2", 1)>>,
      <<QuizQuestion("q1", 0), QuizQuestionNoOptions("q2", 1)>> }

\* mutant of QuizForUser: the stored question is returned as it is
QuizForUser_Whole(q) == q

\* lines 919-926: what the user gets of a question
QuizForUser(q) ==
    [question |-> q.question, options |-> q.options,
     topic |-> Get(q, "topic", "General")]

\* q["question"] and q["options"] raise KeyError on a question without them
QuizUsable(q) == Has(q, "question") /\ Has(q, "options")

\* lines 904-932, and 934-937 for what the list comprehension raises: the quiz
\* is stored under a new uuid4 before the response is built
GenerateQuizReturn ==
    /\ art = NoCall
    /\ next_id <= MaxArtifacts
    /\ \E questions \in QuizReplies :
          /\ quizzes_store' =
                (next_id :> [id |-> next_id, questions |-> questions,
                             num_questions |-> Len(questions)]) @@ quizzes_store
          /\ art' =
                IF \A i \in 1..Len(questions) : QuizUsable(questions[i])
                THEN [NoCall EXCEPT
                        !.handler = "generate_quiz", !.status = "ok", !.id = next_id,
                        !.body = [quiz_id |-> next_id,
                                  questions |-> [i \in 1..Len(questions) |->
                                                    QuizForUser(questions[i])],
                                  total_questions |-> Len(questions)]]
                ELSE [NoCall EXCEPT !.handler = "generate_quiz", !.status = "http500"]
    /\ next_id' = next_id + 1
    /\ UNCHANGED <<mock_tests_store, artFrame>>

Items == {"A", "B", "C", "D"}

TheoryQuestion(t) == [question |-> t, expected_points |-> "points", topic |-> "T"]
CodingQuestion(t) ==
    [question |-> t, function_signature |-> "sig", language |-> "python",
     test_cases |-> <<[input |-> "in", expected_output |-> "out"]>>, topic |-> "Coding"]
ReorderQuestion(t, items, order) ==
    [question |-> t, items |-> items, correct_order |-> order, topic |-> "T"]
ReorderQuestionNoItems(t, order) == [question |-> t, correct_order |-> order]

\* json.loads(response_text) of generate_mock_test
MockReplies ==
    { <<>>,
      [theory_questions |-> <<TheoryQuestion("t1")>>,
       reorder_questions |-> <<ReorderQuestion("o1", <<"B", "D", "A", "C">>,
                                               <<"A", "B", "C", "D">>)>>],
      [theory_questions |-> <<TheoryQuestion("t1"), TheoryQuestion("t2")>>,
       coding_questions |-> <<CodingQuestion("c1")>>,
       reorder_questions |-> <<ReorderQuestion("o1", <<"B", "A">>, <<"A", "B">>)>>],
      [reorder_questions |-> <<ReorderQuestion("o1", <<>>, <<>>)>>],
      [reorder_questions |-> <<ReorderQuestionNoItems("o1", <<"A", "B">>)>>] }

\* lines 1194-1217: what the user gets of each kind of question
TheoryForUser(q) == [question |-> q.question, topic |-> Get(q, "topic", "General")]
CodingForUser(q) ==
    [question |-> q.question, topic |-> Get(q, "topic", "Coding"),
     function_signature |-> Get(q, "function_signature", ""),
     language |-> Get(q, "language", "python"),
     test_cases |-> LET tcs == Get(q, "test_cases", <<>>)
                    IN  [i \in 1..Len(tcs) |-> [input |-> tcs[i].input]]]
ReorderForUser(q) ==
    [question |-> q.question, topic |-> Get(q, "topic", "General"), items |-> q.items]

TheoryUsable(q) == Has(q, "question")
CodingUsable(q) ==
    /\ Has(q, "question")
    /\ LET tcs == Get(q, "test_cases", <<>>)
       IN  \A i \in 1..Len(tcs) : Has(tcs[i], "input")
ReorderUsable(q) == Has(q, "question") /\ Has(q, "items")

\* lines 1172-1226: the test is stored under a new uuid4 before the response
\* is built; coding questions are kept only when the context looked like code
GenerateMockTestReturn ==
    /\ art = NoCall
    /\ next_id <= MaxArtifacts
    /\ \E test_data \in MockReplies, has_code \in BOOLEAN :
          LET theory == Get(test_data, "theory_questions", <<>>)
              coding == IF has_code THEN Get(test_data, "coding_questions", <<>>) ELSE <<>>
              reorder == Get(test_data, "reorder_questions", <<>>)
          IN  /\ mock_tests_store' =
                    (next_id :> [id |-> next_id, theory_questions |-> theory,
                                 coding_questions |-> coding,
                                 reorder_questions |-> reorder,
                                 has_code |-> has_code]) @@ mock_tests_store
              /\ art' =
                    IF /\ \A i \in 1..Len(theory) : TheoryUsable(theory[i])
                       /\ \A i \in 1..Len(coding) : CodingUsable(coding[i])
                       /\ \A i \in 1..Len(reorder) : ReorderUsable(reorder[i])
                    THEN [NoCall EXCEPT
                            !.handler = "generate_mock_test", !.status = "ok",
                            !.id = next_id,
                            !.body =
                               [test_id |-> next_id,
                                theory_questions |->
                                   [i \in 1..Len(theory) |-> TheoryForUser(theory[i])],
                                coding_questions |->
                                   [i \in 1..Len(coding) |-> CodingForUser(coding[i])],
                                reorder_questions |->
                                   [i \in 1..Len(reorder) |-> ReorderForUser(reorder[i])],
                                total_questions |->
                                   Len(theory) + Len(coding) + Len(reorder)]]
                    ELSE [NoCall EXCEPT !.handler = "generate_mock_test",
                                        !.status = "http500"]
    /\ next_id' = next_id + 1
    /\ UNCHANGED <<quizzes_store, artFrame>>

\* the ids a submission can name: those handed out and one never handed out
ArtifactIds == 1..(MaxArtifacts + 1)

QuizAnswers ==
    SeqsUpTo([question_index : -1..MaxAnswers, selected_option : 0..1], MaxAnswers)

\* lines 955-978: every answer is looked up by its index and counted
RECURSIVE QuizLoop(_, _, _, _)
QuizLoop(questions, answers, i, acc) ==
    IF i > Len(answers) \/ acc.raised THEN acc
    ELSE LET answer == answers[i]
         IN  IF ~PyIndexOK(questions, answer.question_index)
             THEN [acc EXCEPT !.raised = TRUE]
             ELSE LET question == PyIndex(questions, answer.question_index)
                      is_correct == answer.selected_option = question.correct_answer
                  IN  QuizLoop(questions, answers, i + 1,
                         [acc EXCEPT
                            !.correct_count = IF is_correct THEN @ + 1 ELSE @,
                            !.results = Append(@,
                               [question_index |-> answer.question_index,
                                question |-> question.question,
                                selected_option |-> answer.selected_option,
                                correct_answer |-> question.correct_answer,
                                is_correct |-> is_correct,
                                explanation |-> Get(question, "explanation", ""),
                                topic |-> Get(question, "topic", "General")])])

\* lines 942-1038: HTTPException(404), IndexError, ZeroDivisionError and
\* whatever the analysis call raises all reach except Exception, which
\* answers 500
SubmitQuiz ==
    /\ art = NoCall
    /\ \E quiz_id \in ArtifactIds :
          LET call == [NoCall EXCEPT !.handler = "submit_quiz", !.id = quiz_id,
                                     !.found = quiz_id \in DOMAIN quizzes_store]
          IN  \/ /\ quiz_id \notin DOMAIN quizzes_store
                 /\ art' = [call EXCEPT !.status = "http500"]
              \/ /\ quiz_id \in DOMAIN quizzes_store
                 /\ \E answers \in QuizAnswers, analysis_raised \in BOOLEAN :
                       LET questions == quizzes_store[quiz_id].questions
                           total_questions == Len(questions)
                           graded == QuizLoop(questions, answers, 1,
                                        [correct_count |-> 0, results |-> <<>>,
                                         raised |-> FALSE])
                       IN  art' =
                              IF graded.raised \/ total_questions = 0
                              THEN [call EXCEPT !.status = "http500"]
                              ELSE IF analysis_raised
                              THEN [call EXCEPT !.status = "http500", !.llm_calls = 1,
                                                !.analysis_calls = 1]
                              ELSE [call EXCEPT
                                      !.status = "ok", !.llm_calls = 1,
                                      !.analysis_calls = 1,
                                      !.body =
                                         [quiz_id |-> quiz_id,
                                          score |-> graded.correct_count,
                                          total_questions |-> total_questions,
                                          score_percentage |->
                                             Ratio(graded.correct_count * 100,
                                                   total_questions),
                                          results |-> graded.results]]
    /\ UNCHANGED <<quizzes_store, mock_tests_store, next_id, artFrame>>

\* one evaluation call of submit_mock_test: it raises, or the score the
\* evaluation ends with (50 is the fallback's)
EvalOutcomes ==
    {[raised |-> TRUE, score |-> 0], [raised |-> FALSE, score |-> 50],
     [raised |-> FALSE, score |-> 100]}

\* lines 1244-1326 and 1328-1417: an answer whose index is >= the number of
\* questions is skipped; every other one is looked up and evaluated by a call
RECURSIVE EvalLoop(_, _, _, _, _, _, _)
EvalLoop(questions, answers, evals, offset, default_topic, i, acc) ==
    IF i > Len(answers) \/ acc.raised THEN acc
    ELSE LET question_index == answers[i]
         IN  IF question_index >= Len(questions)
             THEN EvalLoop(questions, answers, evals, offset, default_topic, i + 1, acc)
             ELSE IF ~PyIndexOK(questions, question_index)
             THEN [acc EXCEPT !.raised = TRUE]
             ELSE IF evals[offset + i].raised
             THEN [acc EXCEPT !.raised = TRUE, !.llm_calls = @ + 1]
             ELSE LET question == PyIndex(questions, question_index)
                  IN  EvalLoop(questions, answers, evals, offset, default_topic, i + 1,
                         [acc EXCEPT
                            !.llm_calls = @ + 1,
                            !.results = Append(@,
                               [question_index |-> question_index,
                                question |-> question.question,
                                score |-> Ratio(evals[offset + i].score, 1),
                                topic |-> Get(question, "topic", default_topic)])])

Range(s) == {s[i] : i \in DOMAIN s}

\* mutant of ReorderMatches: an item counts wherever it stands
ReorderMatches_AnyPosition(user_order, correct_order) ==
    Cardinality({i \in 1..Len(user_order) : user_order[i] \in Range(correct_order)})

\* line 1430: the positions where the submitted item is the canonical one
ReorderMatches(user_order, correct_order) ==
    Cardinality({i \in 1..Len(user_order) :
                    i <= Len(correct_order) /\ user_order[i] = correct_order[i]})

\* lines 1420-1443: reorder answers are scored without a call; an empty
\* canonical order raises ZeroDivisionError
RECURSIVE ReorderLoop(_, _, _, _)
ReorderLoop(questions, answers, i, acc) ==
    IF i > Len(answers) \/ acc.raised THEN acc
    ELSE LET answer == answers[i]
         IN  IF answer.question_index >= Len(questions)
             THEN ReorderLoop(questions, answers, i + 1, acc)
             ELSE IF ~PyIndexOK(questions, answer.question_index)
             THEN [acc EXCEPT !.raised = TRUE]
             ELSE LET question == PyIndex(questions, answer.question_index)
                      correct_order == question.correct_order
                      user_order == answer.ordered_items
                      correct_count == ReorderMatches(user_order, correct_order)
                  IN  IF Len(correct_order) = 0
                      THEN [acc EXCEPT !.raised = TRUE]
                      ELSE ReorderLoop(questions, answers, i + 1,
                              [acc EXCEPT !.results = Append(@,
                                  [question_index |-> answer.question_index,
                                   question |-> question.question,
                                   user_order |-> user_order,
                                   correct_order |-> correct_order,
                                   score |-> Ratio(correct_count * 100, Len(correct_order)),
                                   correct_positions |-> correct_count,
                                   total_items |-> Len(correct_order),
                                   topic |-> Get(question, "topic", "General")])])

\* lines 1446-1447: the mean of the scores, 0 when there is none
OverallScore(all_scores) ==
    IF all_scores = <<>> THEN Ratio(0, 1)
    ELSE LET total == SumRatios(all_scores)
         IN  Ratio(total.num, total.den * Len(all_scores))

UserOrders ==
    { <<>>, <<"A">>, <<"B", "A", "C", "D">>, <<"A", "B", "C", "D">>,
      <<"A", "B", "C", "D", "A">> }

TheoryAnswers == SeqsUpTo(-1..1, 1)
CodingAnswers == SeqsUpTo(-1..0, 1)
ReorderAnswers == SeqsUpTo([question_index : -1..1, ordered_items : UserOrders], 1)

\* lines 1231-1524: HTTPException(404) is raised again as it is; any other
\* exception answers 500; the analysis call is made only when there is a
\* score, and what it raises is replaced by a fixed text
SubmitMockTest ==
    /\ art = NoCall
    /\ \E test_id \in ArtifactIds :
          LET call == [NoCall EXCEPT !.handler = "submit_mock_test", !.id = test_id,
                                     !.found = test_id \in DOMAIN mock_tests_store]
          IN  \/ /\ test_id \notin DOMAIN mock_tests_store
                 /\ art' = [call EXCEPT !.status = "http404"]
              \/ /\ test_id \in DOMAIN mock_tests_store
                 /\ \E theory_answers \in TheoryAnswers, coding_answers \in CodingAnswers,
                       reorder_answers \in ReorderAnswers :
                     \E evals \in [1..(Len(theory_answers) + Len(coding_answers)) -> EvalOutcomes],
                        analysis \in {"model", "fixed"} :
                       LET test == mock_tests_store[test_id]
                           none == [results |-> <<>>, raised |-> FALSE, llm_calls |-> 0]
                           theory == EvalLoop(test.theory_questions, theory_answers,
                                              evals, 0, "General", 1, none)
                           coding == IF theory.raised THEN theory
                                     ELSE EvalLoop(test.coding_questions, coding_answers,
                                                   evals, Len(theory_answers), "Coding", 1,
                                                   [none EXCEPT !.llm_calls = theory.llm_calls])
                           reorder == IF coding.raised THEN coding
                                      ELSE ReorderLoop(test.reorder_questions,
                                                       reorder_answers, 1, none)
                           results == theory.results \o coding.results \o reorder.results
                           all_scores == [i \in 1..Len(results) |-> results[i].score]
                       IN  art' =
                              IF theory.raised \/ coding.raised \/ reorder.raised
                              THEN [call EXCEPT !.status = "http500",
                                                !.llm_calls = coding.llm_calls]
                              ELSE [call EXCEPT
                                      !.status = "ok",
                                      !.analysis_calls = IF all_scores # <<>> THEN 1 ELSE 0,
                                      !.llm_calls = coding.llm_calls
                                                    + IF all_scores # <<>> THEN 1 ELSE 0,
                                      !.body =
                                         [test_id |-> test_id,
                                          overall_score |-> OverallScore(all_scores),
                                          theory_results |-> theory.results,
                                          coding_results |-> coding.results,
                                          reorder_results |-> reorder.results,
                                          overall_analysis |->
                                             IF all_scores # <<>> THEN analysis
                                             ELSE "none_answered",
                                          total_questions |-> Len(results)]]
    /\ UNCHANGED <<quizzes_store, mock_tests_store, next_id, artFrame>>

\* lines 1869-1888: index.delete(delete_all=True) first; when it raises nothing
\* is cleared and the answer is 500
clear_all ==
    /\ art = NoCall
    /\ \/ /\ art' = [NoCall EXCEPT !.handler = "clear_all", !.status = "http500"]
          /\ UNCHANGED <<index, quizzes_store, mock_tests_store>>
       \/ /\ index' = <<>>
          /\ quizzes_store' = <<>>
          /\ mock_tests_store' = <<>>
          /\ art' = [NoCall EXCEPT !.handler = "clear_all", !.status = "ok"]
    /\ UNCHANGED <<documents, document_count, next_id, req, files, del, ens, ret, dsc,
                   chunkVars, llmVars>>

\* the response has gone out and the next call can come in
ArtifactCallEnds ==
    /\ art # NoCall
    /\ art' = NoCall
    /\ UNCHANGED <<quizzes_store, mock_tests_store, next_id, artFrame>>

InitArtifacts ==
    /\ ChunkIdle
    /\ LLMIdle
    /\ StoreIdle
    /\ ArtifactIdle

NextArtifacts ==
    \/ GenerateQuizReturn
    \/ GenerateMockTestReturn
    \/ SubmitQuiz
    \/ SubmitMockTest
    \/ clear_all
    \/ ArtifactCallEnds

SpecArtifacts == InitArtifacts /\ [][NextArtifacts]_vars

(***************************************************************************)
(* generate_doomscroll_cards                                               *)
(*                                                                         *)
(* The request is followed from the chunks that ensure_document_chunks     *)
(* returned for the notebook's documents to the response.  Each call of    *)
(* generate_card_with_llm returns a card of the type it was asked for, or  *)
(* None.                                                                   *)
(***************************************************************************)
CARD_TYPES ==
    <<"fun_fact", "mnemonic", "key_concept", "quote", "summary", "tip", "question",
      "definition">>

\* the largest count asked for
MaxCount == 9
\* the most chunks a notebook has
MaxChunks == 10

CardCounts == {-1, 0, 1, 3, MaxCount}

\* all_chunks before the shuffle
ChunkPools == {[i \in 1..n |-> IF i = 1 THEN "a" ELSE "b"] : n \in 0..MaxChunks}

Occurrences(s, c) == Cardinality({i \in DOMAIN s : s[i] = c})

\* random.shuffle(all_chunks): any arrangement of the same chunks
Shuffles(s) ==
    {p \in [1..Len(s) -> Range(s)] : \A c \in Range(s) : Occurrences(p, c) = Occurrences(s, c)}

dscFrame == <<chunkVars, llmVars, storeVars, quizzes_store, mock_tests_store, art>>

\* mutant of CardTypeAfter: the type moves on after every attempt
CardTypeAfter_Always(card_type_index, made) == card_type_index + 1

\* lines 2373-2375: the type moves on only after a card was made
CardTypeAfter(card_type_index, made) ==
    IF made THEN card_type_index + 1 ELSE card_type_index

\* line 2364: the condition of the while loop
CardLoopGoesOn(q) ==
    /\ Len(q.cards) < q.count
    /\ q.attempts < q.max_attempts
    /\ q.chunk_index < Len(q.all_chunks)

\* lines 2330-2362: no documents and no chunks are answered with no cards;
\* otherwise the chunks are shuffled and the counters start at 0
DoomscrollStart ==
    /\ dsc.pc = "idle"
    /\ \E count \in CardCounts, has_documents \in BOOLEAN, pool \in ChunkPools :
          LET q == [NoCards EXCEPT !.count = count]
          IN  IF ~has_documents
              THEN dsc' = [q EXCEPT !.pc = "done", !.message = "no_documents"]
              ELSE IF pool = <<>>
              THEN dsc' = [q EXCEPT !.pc = "done", !.message = "no_content"]
              ELSE \E shuffled \in Shuffles(pool) :
                      dsc' = [q EXCEPT !.pc = "loop", !.all_chunks = shuffled,
                                       !.max_attempts = count * 3]
    /\ UNCHANGED dscFrame

\* lines 2364-2378: one pass of the loop
DoomscrollAttempt ==
    /\ dsc.pc = "loop"
    /\ CardLoopGoesOn(dsc)
    /\ \E made \in BOOLEAN :
          LET card_type == CARD_TYPES[(dsc.card_type_index % Len(CARD_TYPES)) + 1]
              chunk == dsc.all_chunks[dsc.chunk_index + 1]
          IN  dsc' = [dsc EXCEPT
                        !.cards = IF made THEN Append(@, [type |-> card_type]) ELSE @,
                        !.card_type_index = CardTypeAfter(@, made),
                        !.chunk_index = @ + 1,
                        !.attempts = @ + 1,
                        !.attempted = Append(@, [card_type |-> card_type,
                                                 chunk_index |-> dsc.chunk_index,
                                                 chunk |-> chunk])]
    /\ UNCHANGED dscFrame

\* lines 2380-2387: the loop is over and what was made is returned
DoomscrollReturn ==
    /\ dsc.pc = "loop"
    /\ ~CardLoopGoesOn(dsc)
    /\ dsc' = [dsc EXCEPT !.pc = "done",
                          !.message = IF Len(dsc.cards) = 0 THEN "could_not_generate"
                                      ELSE "none"]
    /\ UNCHANGED dscFrame

InitCards ==
    /\ ChunkIdle
    /\ LLMIdle
    /\ StoreIdle
    /\ ArtifactIdle

NextCards ==
    \/ DoomscrollStart
    \/ DoomscrollAttempt
    \/ DoomscrollReturn

SpecCards == InitCards /\ [][NextCards]_vars

\* the handler runs on until it returns
FairCards == SpecCards /\ WF_vars(NextCards)

(***************************************************************************)
(* Claims about chunk_text (SpecChunk)                                     *)
(***************************************************************************)
Stride == chunk_size - overlap

\* the i of the claim: 0-based window indices whose stride start lies in the text
WindowIndices == {i \in 0..Len(text) : i * Stride < Len(text)}

\* C5: for 0 <= overlap < chunk_size, chunk_text returns the sequence whose
\* i-th element (0-based) is text[i*(S-O) : i*(S-O)+S] for exactly those i
\* with i*(S-O) < len(text); the empty text yields the empty sequence.
C5_ChunkWindows ==
    /\ (cpc = "done" /\ overlap < chunk_size) =>
          /\ Len(chunks) = Cardinality(WindowIndices)
          /\ \A i \in WindowIndices :
                chunks[i + 1] = SubSeq(text, i * Stride + 1,
                                       Min(i * Stride + chunk_size, Len(text)))
    /\ (cpc = "done" /\ text = <<>>) => chunks = <<>>

\* a finished call with a real overlap and at least three windows
C5_Witness ==
    /\ cpc = "done"
    /\ 0 < overlap /\ overlap < chunk_size
    /\ Len(chunks) >= 3

\* the chunks concatenated after dropping the first ov characters of every
\* chunk but the first
DropFirst(c, ov) == SubSeq(c, ov + 1, Len(c))

RECURSIVE ConcatDropped(_, _, _)
ConcatDropped(cs, i, ov) ==
    IF i > Len(cs) THEN <<>>
    ELSE (IF i = 1 THEN cs[i] ELSE DropFirst(cs[i], ov)) \o ConcatDropped(cs, i + 1, ov)

Reconstructed == ConcatDropped(chunks, 1, overlap)

\* C6 as stated: every chunk except the last has length exactly S, the last
\* has length len(T) - k*(S-O) > 0 for its index k, and the text is
\* reconstructed from the chunks.
C6_AllButLastFull ==
    (cpc = "done" /\ overlap < chunk_size) =>
        /\ \A i \in 1..(Len(chunks) - 1) : Len(chunks[i]) = chunk_size
        /\ chunks # <<>> =>
              /\ Len(chunks[Len(chunks)]) = Len(text) - (Len(chunks) - 1) * Stride
              /\ Len(chunks[Len(chunks)]) > 0
        /\ Reconstructed = text

\* C6 amended: chunk i (0-based) has length min(S, len(T) - i*(S-O)) > 0, so
\* it has length exactly S when its window fits in the text and is shorter
\* otherwise (with overlap > 0 several trailing chunks can be short); the
\* last has length len(T) - k*(S-O) > 0; the text is reconstructed.
C6_ChunkLengths ==
    (cpc = "done" /\ overlap < chunk_size) =>
        /\ \A i \in 1..Len(chunks) :
              /\ Len(chunks[i]) = Min(chunk_size, Len(text) - (i - 1) * Stride)
              /\ Len(chunks[i]) > 0
        /\ chunks # <<>> =>
              Len(chunks[Len(chunks)]) = Len(text) - (Len(chunks) - 1) * Stride
        /\ Reconstructed = text

\* a finished call whose chunk before the last is already short
C6_Witness ==
    /\ cpc = "done"
    /\ overlap < chunk_size
    /\ Len(chunks) >= 2
    /\ Len(chunks[Len(chunks) - 1]) < chunk_size

\* C7: chunk_text on a non-empty text with overlap >= chunk_size is rejected:
\* the call never gets to run its loop body on such an input.
C7_BadOverlapRejected ==
    (Len(text) > 0 /\ overlap >= chunk_size) => chunks = <<>>

(***************************************************************************)
(* Claims about the structured-output call sites (SpecLLM)                 *)
(***************************************************************************)
\* what json.loads made of the text the call site handed to it
ParsedExtract == json_loads(extracted)

\* the fields the call site reads without a default
RequiredPresent(f, v) ==
    CASE f \in {"theory", "code"} ->
            v.kind = "object" /\ {"score", "feedback"} \subseteq v.keys
      [] f = "card" ->
            v.kind = "object" /\ {"title", "content"} \subseteq v.keys
      [] f = "quiz" ->
            /\ v.kind = "array"
            /\ \A i \in 1..Len(v.items) :
                  /\ v.items[i].kind = "object"
                  /\ {"question", "options"} \subseteq v.items[i].keys
      [] OTHER -> v.kind = "object"

\* a call site that got an answer from the LLM and has ended
Answered(f) == flow = f /\ rpc = "done" /\ ~raised

\* C1: in every LLM-backed flow that expects structured output, a model
\* response that does not parse as JSON or lacks required fields never makes
\* the request fail: the request returns a usable result.
C1_MalformedReplyNeverFails ==
    \A f \in {"quiz", "mock", "theory", "code", "interview"} :
        (Answered(f) /\ (~ParsedExtract.ok \/ ~RequiredPresent(f, ParsedExtract.val)))
            => status = "ok"

Fallback(f) == IF f = "theory" THEN TheoryFallback ELSE CodeFallback

\* C2: when grading a theory or coding answer, if the reply has no parseable
\* JSON object or the parsed object lacks "score" or "feedback", the
\* evaluation used for the answer is exactly the whole fallback object.
C2_WholeFallback ==
    \A f \in {"theory", "code"} :
        (Answered(f) /\ (~ParsedExtract.ok \/ ~RequiredPresent(f, ParsedExtract.val)))
            => result = Fallback(f)

\* bracket scanning: the position that closes the bracket opened at a, or 0
RECURSIVE ScanClose(_, _, _, _, _)
ScanClose(s, i, depth, open, close) ==
    IF i > Len(s) THEN 0
    ELSE LET d == IF s[i] = open THEN depth + 1
                  ELSE IF s[i] = close THEN depth - 1
                  ELSE depth
         IN  IF d = 0 THEN i ELSE ScanClose(s, i + 1, d, open, close)

\* the first balanced open ... close substring of s (empty when there is none)
FirstBalanced(s, open, close) ==
    LET a == FirstIndex(s, open)
        b == IF a = 0 THEN 0 ELSE ScanClose(s, a, 0, open, close)
    IN  IF b = 0 THEN <<>> ELSE SubSeq(s, a, b)

\* the text each call site searches, and the brackets it searches for
SearchedText(f) == IF f \in {"theory", "code"} THEN StripFences(reply) ELSE reply
OpenOf(f) == IF f = "quiz" THEN "[" ELSE "{"
CloseOf(f) == IF f = "quiz" THEN "]" ELSE "}"

\* C3: for every reply that contains a valid JSON value preceded or followed
\* by commentary, the extracted substring is exactly the first balanced
\* {...} (or [...]) substring, not the span from the first opening bracket to
\* the last closing bracket.
C3_FirstBalancedExtracted ==
    \A f \in {"quiz", "mock", "theory", "code", "interview"} :
        LET fb == FirstBalanced(SearchedText(f), OpenOf(f), CloseOf(f))
        IN  (Answered(f) /\ fb # <<>> /\ json_loads(fb).ok) => extracted = fb

\* a reply generate_card_with_llm accepts: it parses and has "title" and "content"
CardReplyGood(r) ==
    LET p == json_loads(CardStripFences(r))
    IN  p.ok /\ p.val.kind = "object" /\ {"title", "content"} \subseteq p.val.keys

C4_CallCounts ==
    /\ flow = "card" => llm_calls <= max_retries
    /\ (flow = "card" /\ rpc = "done" /\ result = NoResult) => llm_calls = max_retries
    /\ (flow = "card" /\ rpc = "done" /\ result # NoResult) => CardReplyGood(reply)
    /\ (flow \in {"theory", "code"} /\ rpc = "done") => llm_calls = 1

C4_FirstGoodAttemptReturns ==
    (flow = "card" /\ rpc = "parse") =>
        IF CardReplyGood(reply)
        THEN rpc' = "done" /\ result' # NoResult /\ llm_calls' = llm_calls
        ELSE result' = NoResult /\ (rpc' = "done" <=> llm_calls = max_retries)

NoUploadInFlight == \A r \in Requests : req[r].pc \in {"idle", "done"}

\* C8: once the upload_pdfs calls have returned, every chunk stored on a
\* Document record has its vector record <<doc_id, chunk_index>> in the index
C8_EveryChunkHasVector ==
    NoUploadInFlight =>
        \A d \in DOMAIN documents :
            \A i \in 0..(documents[d].chunks_count - 1) : <<d, i>> \in DOMAIN index

\* C9: a request that found its notebook and was given only PDF files runs to
\* the end: whatever embedding or batch write failed, every file is processed
\* and the request succeeds
C9_FailureDoesNotAbortUpload ==
    \A r \in Requests :
        (req[r].pc = "done" /\ req[r].error \notin {"notebook", "file"})
            => (req[r].status = "ok" /\ req[r].k = req[r].nfiles)

\* C10: under every interleaving of uploads, the vector record with id
\* <<d, i>> carries doc_id d, chunk_index i and the text of the i-th chunk
\* stored on document d, and a query filtered to doc_id = d returns that
\* record and no other text for position i
C10_VectorSelfConsistent ==
    \A id \in DOMAIN index :
        LET m == index[id]
            d == id[1]
            i == id[2]
        IN  /\ m.doc_id = d
            /\ m.chunk_index = i
            /\ d \in DOMAIN documents
            /\ i \in 0..(documents[d].chunks_count - 1)
            /\ m.text = documents[d].chunks[i + 1]
            /\ m.notebook_id = documents[d].notebook_id
            /\ m \in Query(index, documents[d].notebook_id, {d})
            /\ \A m2 \in Query(index, documents[d].notebook_id, {d}) :
                   m2.chunk_index = i => m2.text = documents[d].chunks[i + 1]

\* two uploads in flight at once have both written vectors of their documents
C10_Witness ==
    /\ req["r1"].pc = "upsert" /\ req["r2"].pc = "upsert"
    /\ req["r1"].i > 0 /\ req["r2"].i > 0
    /\ <<req["r1"].doc_id, 0>> \in DOMAIN index
    /\ <<req["r2"].doc_id, 1>> \in DOMAIN index
    /\ documents[req["r1"].doc_id].chunks # documents[req["r2"].doc_id].chunks

(***************************************************************************)
(* Claims about delete_document and delete_notebook (SpecDelete)           *)
(***************************************************************************)
DeletingDocument == del.kind = "document" /\ del.pc \notin {"idle", "done"}

\* once the record deletion has run, the Document record is gone, whether
\* or not index.delete raised
C11_RecordGone ==
    (del.kind = "document" /\ del.pc \in {"dcount", "done"} /\ del.status # "http500")
        => del.doc_id \notin DOMAIN documents

\* a delete_document that found its document never ends in an error, and
\* its record is removed only by the step that follows the vector deletion
C11_NoAbortAndOrder ==
    /\ (del.pc = "idle" /\ del'.kind = "document" /\ del'.doc_id \in DOMAIN documents)
           => del'.pc = "dvectors"
    /\ DeletingDocument => del'.status # "http500"
    /\ (DeletingDocument /\ del.doc_id \in DOMAIN documents
                         /\ del.doc_id \notin DOMAIN documents')
           => del.pc = "drecord"
    /\ (del.pc = "dvectors" /\ del' # del) => del'.pc = "drecord"

\* C11: delete_document on an existing document always removes its Document
\* record; the vector deletion is attempted first and its failure is passed
\* over without stopping the record deletion
C11_DeleteDocumentRemovesRecord == []C11_RecordGone /\ [][C11_NoAbortAndOrder]_vars

\* delete_document has returned 200 although index.delete raised: the record
\* is gone and a vector of the document is still in the index
C11_Witness ==
    /\ del.kind = "document" /\ del.pc = "done" /\ del.status = "ok"
    /\ del.index_failed
    /\ del.doc_id \notin DOMAIN documents
    /\ \E id \in DOMAIN index : index[id].doc_id = del.doc_id

\* what the deletion q is aimed at
Targeted(q, doc) ==
    \/ q.kind = "document" /\ doc.doc_id = q.doc_id
    \/ q.kind = "notebook" /\ doc.notebook_id = q.notebook_id

NothingLeft ==
    /\ \A id \in DOMAIN index : ~Targeted(del, index[id])
    /\ \A d \in DOMAIN documents : ~Targeted(del, documents[d])

\* the deletion returns 200 and index.delete did not raise
DeleteCompletes ==
    /\ del.pc # "done"
    /\ del'.pc = "done" /\ del'.status = "ok" /\ ~del'.index_failed

\* a step of the deletion removes records of its target only
DeleteFrame ==
    (del' # del) =>
        /\ \A d \in DOMAIN documents \ DOMAIN documents' : Targeted(del', documents[d])
        /\ \A id \in DOMAIN index \ DOMAIN index' : Targeted(del', index[id])

\* C12: when delete_notebook(n) or delete_document(d) completes with a working
\* vector index, no vector record and no Document record of n (of d) is left,
\* and the deletion removed no record of another notebook or document
C12_DeleteCascades ==
    [][(DeleteCompletes => NothingLeft') /\ DeleteFrame]_vars

(***************************************************************************)
(* Claims about ensure_document_chunks and the Document records (SpecDocs) *)
(***************************************************************************)
\* C13: every Document record that has both fields has chunks_count equal to
\* the length of chunks, after upload_pdfs and after ensure_document_chunks
\* wrote rehydrated chunks back
C13_ChunksCountIsLength ==
    \A d \in DOMAIN documents :
        (Has(documents[d], "chunks") /\ Has(documents[d], "chunks_count"))
            => documents[d].chunks_count = Len(documents[d].chunks)

\* a record that had a count and no chunks was rehydrated and written back,
\* beside a record stored by upload_pdfs with chunks of its own
C13_Witness ==
    /\ ens.pc = "done" /\ ens.writes = 1
    /\ Has(ens.doc, "chunks_count") /\ ~Has(ens.doc, "chunks")
    /\ Has(documents[ens.key], "chunks") /\ documents[ens.key].chunks # <<>>
    /\ \E d \in DOMAIN documents : d # ens.key /\ documents[d].chunks # <<>>

EnsureCalled == ens.pc \in {"write", "done"}

HasCachedChunks(doc) == Has(doc, "chunks") /\ doc.chunks # <<>>

C14_ReturnsCache ==
    (EnsureCalled /\ HasCachedChunks(ens.doc))
        => /\ ens.pc = "done"
           /\ ens.result = ens.doc.chunks
           /\ ens.reads = 0 /\ ens.writes = 0 /\ ~ens.write_failed

C14_NoWrite ==
    (ens.pc = "call" /\ HasCachedChunks(ens.doc) /\ ens' # ens)
        => (documents' = documents /\ files' = files)

\* C14: on a document that carries a non-empty chunk sequence,
\* ensure_document_chunks returns that sequence unchanged, reads no file and
\* writes nothing to the document store
C14_CachedChunksReturned == []C14_ReturnsCache /\ [][C14_NoWrite]_vars

\* the call returned the cached chunks of a record whose PDF is on disk
C14_Witness ==
    /\ ens.pc = "done" /\ HasCachedChunks(ens.doc)
    /\ ens.result = ens.doc.chunks
    /\ ResolvePath(ens.doc) \in DOMAIN files

\* the binary of the document cannot be located
Unlocatable(doc) == ResolvePath(doc) = <<>> \/ ResolvePath(doc) \notin DOMAIN files

C15_ReturnsEmpty ==
    (EnsureCalled /\ ~HasCachedChunks(ens.doc)
                  /\ (Unlocatable(ens.doc) \/ ens.extract_failed))
        => /\ ens.pc = "done"
           /\ ens.result = <<>>
           /\ ens.writes = 0 /\ ~ens.write_failed
           /\ Unlocatable(ens.doc) => ens.reads = 0

C15_NoWrite ==
    (ens.pc = "call" /\ ~HasCachedChunks(ens.doc) /\ ens' # ens
                     /\ (Unlocatable(ens.doc) \/ ens'.extract_failed))
        => (documents' = documents /\ files' = files /\ ens'.pc = "done")

\* C15: for a document without cached chunks whose binary cannot be located,
\* or whose extraction fails, ensure_document_chunks returns the empty
\* sequence, raises nothing and writes nothing to the document store
C15_UnlocatableGivesEmpty == []C15_ReturnsEmpty /\ [][C15_NoWrite]_vars

\* both ways have been taken: here the record names no path at all
C15_Witness ==
    /\ ens.pc = "done" /\ ~HasCachedChunks(ens.doc)
    /\ ResolvePath(ens.doc) = <<>>
    /\ ens.result = <<>>
    /\ PdfPath("n1", 1) \in DOMAIN files

\* C16: when the write-back of recomputed chunks fails, the failure is
\* passed over and the freshly computed, non-empty chunks are returned
C16_WriteFailureSwallowed ==
    ens.write_failed
        => /\ ens.pc = "done"
           /\ ens.result # <<>>
           /\ ens.result = chunk_text(files[ResolvePath(ens.doc)])
           /\ ~HasCachedChunks(documents[ens.key])

\* the write-back raised and the caller has its chunks
C16_Witness ==
    /\ ens.write_failed /\ ens.pc = "done"
    /\ Len(ens.result) = 2
    /\ ~Has(documents[ens.key], "chunks")

(***************************************************************************)
(* Claims about retrieval and diverse sampling (SpecRetrieve)              *)
(***************************************************************************)
InNotebook(m) == m.notebook_id = ret.notebook_id

\* the texts of the request's notebook that are in the index
NotebookTexts == {index[id].text : id \in {x \in DOMAIN index : InNotebook(index[x])}}

\* C17: every index query of ask_question, generate_quiz, generate_mock_test
\* and generate_note carries a filter with the request's notebook_id, and a
\* doc_id allow-list exactly when document_ids is not empty; every match,
\* every text put in a prompt and every source is of that notebook
C17_NotebookScoped ==
    /\ ret.filter # NoFilter =>
          /\ ret.filter.notebook_id = ret.notebook_id
          /\ ret.filter.has_doc_id = (ret.document_ids # {})
          /\ ret.filter.has_doc_id => ret.filter.doc_id_in = ret.document_ids
    /\ ret.queries > 0 => ret.filter # NoFilter
    /\ \A i \in 1..Len(ret.matches) :
          /\ InNotebook(ret.matches[i])
          /\ ret.filter.has_doc_id => ret.matches[i].doc_id \in ret.document_ids
    /\ \A i \in 1..Len(ret.all_chunks) : ret.all_chunks[i].text \in NotebookTexts
    /\ \A i \in 1..Len(ret.context) : ret.context[i] \in NotebookTexts
    /\ \A i \in 1..Len(ret.sources) :
          \E id \in DOMAIN index :
              /\ InNotebook(index[id])
              /\ index[id].chunk_index = ret.sources[i].chunk_index
              /\ index[id].filename = ret.sources[i].filename

\* the allow-list names a document of another notebook, which holds a text
\* of its own, and the context was built from the request's notebook only
C17_Witness ==
    /\ ret.pc \in {"llm", "done"} /\ ret.context # <<>>
    /\ ret.document_ids = {1, 2}
    /\ \E id \in DOMAIN index :
          /\ index[id].doc_id \in ret.document_ids
          /\ ~InNotebook(index[id])
          /\ index[id].text \notin NotebookTexts

\* C18: when its query returns no match, ask_question answers normally with
\* the fixed sentence and an empty sources list, and does not call the LLM
C18_NoMatchIsNotAnError ==
    (/\ ret.handler = "ask_question" /\ ret.pc # "start"
     /\ ret.detail # "index"
     /\ FilterMatches(index, ret.filter) = {})
        => /\ ret.pc = "done" /\ ret.status = "ok"
           /\ ret.answer = "fixed"
           /\ ret.sources = <<>>
           /\ ret.llm_calls = 0

\* the notebook has a document and the question found nothing
C18_Witness ==
    /\ ret.handler = "ask_question" /\ ret.pc = "done"
    /\ ret.answer = "fixed" /\ ret.queries = 1
    /\ DocCount(ret.notebook_id) > 0

Sampling == ret.handler \in {"generate_quiz", "generate_mock_test"}

\* the cap the claim gives for each loop
ClaimedCap == IF ret.handler = "generate_quiz" THEN 10 ELSE 15

\* the loop has run to its end: the chunks were selected, or none was found
LoopEnded == ret.pc = "done" /\ (ret.status = "ok" \/ ret.detail = "no_content")

\* the number of queries the claim gives; a negative count is not a number
\* of questions, and range() then makes no turn at all
QueryBudget == Min(2 * ret.num, ClaimedCap)

C19_Budget ==
    Sampling =>
        /\ ret.queries <= Max(QueryBudget, 0)
        /\ (LoopEnded /\ ret.num >= 0) => ret.queries = QueryBudget
        /\ ret.queries > 0 => ret.top_k = 3
        /\ ret.pc = "loop" => ret.num_queries = QueryBudget

\* a turn of the loop leaves the number of queries to make as it was,
\* whatever the query returned
C19_FixedBeforeLoop ==
    (Sampling /\ ret.pc = "loop") =>
        (ret'.num_queries = ret.num_queries /\ ret'.queries \in {ret.queries, ret.queries + 1})

\* C19: the sampling loop always terminates, after a number of index queries
\* fixed before the loop starts: min(2 * count, cap), cap being 10 for
\* quizzes and 15 for mock tests, each query with top_k = 3; the number does
\* not depend on what the queries return (a query that raises ends the
\* request before that number is reached)
C19_LoopBounded ==
    /\ []C19_Budget
    /\ [][C19_FixedBeforeLoop]_vars
    /\ <>(ret.pc = "done")

\* a mock test of nine questions made its fifteen queries, and every query
\* returned the same single match
C19_Witness ==
    /\ ret.handler = "generate_mock_test" /\ LoopEnded
    /\ 2 * ret.num > 15 /\ ret.queries = 15
    /\ Len(ret.all_chunks) = 1

\* the unique chunk texts of the corpus
CorpusUnique == {index[id].text : id \in DOMAIN index}

C20_Pool ==
    Sampling =>
        /\ \A i, j \in 1..Len(ret.all_chunks) :
               i # j => ret.all_chunks[i].text # ret.all_chunks[j].text
        /\ Texts_of(ret.all_chunks) \subseteq {m.text : m \in FilterMatches(index, ret.filter)}
        /\ Len(ret.all_chunks) <= Cardinality(CorpusUnique)

FirstPos(m, t) == CHOOSE i \in 1..Len(m) : m[i].text = t /\ \A j \in 1..(i - 1) : m[j].text # t

\* a query keeps the entries in place and appends the texts not seen before,
\* in the order of their first match
C20_FirstSeenOrder ==
    (Sampling /\ ret'.queries = ret.queries + 1 /\ ret'.detail # "index") =>
        LET old == ret.all_chunks
            new == ret'.all_chunks
            m == ret'.matches
        IN  /\ Len(new) >= Len(old)
            /\ SubSeq(new, 1, Len(old)) = old
            /\ Texts_of(new) = Texts_of(old) \cup {m[i].text : i \in 1..Len(m)}
            /\ \A i, j \in (Len(old) + 1)..Len(new) :
                   i < j => FirstPos(m, new[i].text) < FirstPos(m, new[j].text)

\* C20: the chunk pool of diverse sampling holds no two entries with equal
\* text, keeps the entries in the order their text was first seen, and holds
\* only texts the index returned: at most as many as the corpus has unique
\* chunk texts
C20_PoolDeduplicated == []C20_Pool /\ [][C20_FirstSeenOrder]_vars

\* two documents hold the same single chunk; the queries returned both
\* records every time and the pool holds the text once
C20_Witness ==
    /\ Sampling /\ ret.queries >= 2
    /\ Len(ret.matches) = 2
    /\ ret.matches[1].text = ret.matches[2].text
    /\ Len(ret.all_chunks) = 1

\* the size budget of the pool: 2 * target_count
PoolBudget == 2 * ret.num

C21_WithinBudget ==
    (Sampling /\ ret.pc = "done" /\ ret.status = "ok") => Len(ret.context) <= PoolBudget

C21_StopsAtBudget ==
    (Sampling /\ ret.pc = "loop" /\ ret.num > 0 /\ Len(ret.all_chunks) >= PoolBudget)
        => ret'.queries = ret.queries

\* C21: the pool handed to the prompt never exceeds 2 * target_count chunks,
\* for quizzes and for mock tests, and no query is issued once the pool has
\* reached that budget
C21_PoolBudgetKept == []C21_WithinBudget /\ [][C21_StopsAtBudget]_vars

\* C22: a notebook without documents, or a sampling that retrieved no chunk,
\* is answered by generate_quiz and generate_mock_test with a 4xx status and
\* not with a 5xx one, without an LLM call
C22_MissingContentIs4xx ==
    (Sampling /\ ret.detail \in {"no_documents", "no_content"})
        => (ret.status = "http400" /\ ret.llm_calls = 0)

(***************************************************************************)
(* Claims about the generated artifacts (SpecArtifacts)                    *)
(***************************************************************************)
Submitted == art.handler \in {"submit_quiz", "submit_mock_test"}

\* C23: a submission that names an artifact id which is not in the store is
\* answered 404, never 500, by submit_quiz and by submit_mock_test alike.
C23_UnknownIdIs404 == (Submitted /\ ~art.found) => art.status = "http404"

ReorderScored == art.handler = "submit_mock_test" /\ art.status = "ok"

\* the positions at which the submitted list and the canonical one agree
Matching(u, c) == {i \in DOMAIN u \cap DOMAIN c : u[i] = c[i]}

C24_ScoreOf(r) ==
    /\ r.score = Ratio(Cardinality(Matching(r.user_order, r.correct_order)) * 100,
                       Len(r.correct_order))
    /\ RatioLeq(Ratio(0, 1), r.score)
    /\ RatioLeq(r.score, Ratio(100, 1))
    /\ (/\ r.correct_order = <<"A", "B", "C", "D">>
        /\ r.user_order = <<"B", "A", "C", "D">>) => RatioEq(r.score, Ratio(50, 1))

\* C24: a reorder answer is scored without any LLM call as the number of
\* positions where the submitted item equals the canonical item, divided by
\* the number of canonical items, times 100; the score lies in 0..100 for a
\* submitted list of any length, and [B,A,C,D] against [A,B,C,D] scores 50.
C24_ReorderScoredByPosition ==
    ReorderScored =>
        /\ \A i \in 1..Len(art.body.reorder_results) :
              C24_ScoreOf(art.body.reorder_results[i])
        /\ art.llm_calls - art.analysis_calls =
              Len(art.body.theory_results) + Len(art.body.coding_results)

C24_Witness ==
    /\ ReorderScored
    /\ \E i \in 1..Len(art.body.reorder_results) :
          LET r == art.body.reorder_results[i]
          IN  /\ r.correct_order = <<"A", "B", "C", "D">>
              /\ r.user_order = <<"B", "A", "C", "D">>
              /\ r.score = Ratio(200, 4)
    /\ art.body.theory_results = <<>>
    /\ art.llm_calls = 1

AnswerKeyFields ==
    {"correct_answer", "explanation", "expected_points", "correct_order",
     "expected_output"}

NoAnswerKey(q) == DOMAIN q \cap AnswerKeyFields = {}

\* the returned list is the stored list, question by question
SameQuestions(returned, stored) ==
    /\ Len(returned) = Len(stored)
    /\ \A i \in 1..Len(returned) :
          /\ NoAnswerKey(returned[i])
          /\ returned[i].question = stored[i].question

C25_Quiz ==
    (art.handler = "generate_quiz" /\ art.status = "ok") =>
        /\ art.id \in DOMAIN quizzes_store
        /\ art.body.quiz_id = art.id
        /\ SameQuestions(art.body.questions, quizzes_store[art.id].questions)
        /\ \A i \in 1..Len(art.body.questions) :
              art.body.questions[i].options = quizzes_store[art.id].questions[i].options

C25_MockTest ==
    (art.handler = "generate_mock_test" /\ art.status = "ok") =>
        /\ art.id \in DOMAIN mock_tests_store
        /\ art.body.test_id = art.id
        /\ SameQuestions(art.body.theory_questions,
                         mock_tests_store[art.id].theory_questions)
        /\ SameQuestions(art.body.coding_questions,
                         mock_tests_store[art.id].coding_questions)
        /\ SameQuestions(art.body.reorder_questions,
                         mock_tests_store[art.id].reorder_questions)
        /\ \A i \in 1..Len(art.body.coding_questions) :
              \A j \in 1..Len(art.body.coding_questions[i].test_cases) :
                 NoAnswerKey(art.body.coding_questions[i].test_cases[j])
        /\ \A i \in 1..Len(art.body.reorder_questions) :
              art.body.reorder_questions[i].items =
                 mock_tests_store[art.id].reorder_questions[i].items

\* C25: the response of generate_quiz and of generate_mock_test carries no
\* answer-key field (correct_answer, explanation, expected_points,
\* correct_order, a test case's expected_output); the key is in the store
\* entry under the returned id, and that entry holds exactly the questions
\* that were returned.
C25_ResponseHasNoAnswerKey == C25_Quiz /\ C25_MockTest

C25_Witness ==
    /\ art.handler = "generate_quiz"
    /\ art.status = "ok"
    /\ Len(art.body.questions) = 2
    /\ "correct_answer" \in DOMAIN quizzes_store[art.id].questions[1]
    /\ 1 \in DOMAIN mock_tests_store
    /\ Len(mock_tests_store[1].coding_questions) = 1

\* a store gains an entry only under a new id, by a generation call that
\* succeeds; it loses entries only to clear_all; an entry never changes
StoreLifecycle(store, generate) ==
    /\ \A id \in DOMAIN store' \ DOMAIN store :
          /\ art'.handler = generate
          /\ art'.status = "ok"
          /\ art'.id = id
          /\ id = next_id
    /\ (DOMAIN store \ DOMAIN store' # {}) => art'.handler = "clear_all"
    /\ \A id \in DOMAIN store \cap DOMAIN store' : store'[id] = store[id]

\* C26: a quiz or a mock test enters its store only through a generation
\* call that succeeds, under a fresh id; a submission leaves the stored
\* artifact as it is, so that it can be submitted again; nothing expires:
\* only clear_all removes entries.
C26_ArtifactLifecycle ==
    [][/\ StoreLifecycle(quizzes_store, "generate_quiz")
       /\ StoreLifecycle(mock_tests_store, "generate_mock_test")
       /\ (art'.handler \in {"submit_quiz", "submit_mock_test"}) =>
             UNCHANGED <<quizzes_store, mock_tests_store>>]_vars

\* C28: submit_quiz answers with score <= total_questions and
\* 0 <= score_percentage <= 100 for every list of answers, also one that
\* answers a question twice or leaves questions out.
C28_ScoreWithinTotal ==
    (art.handler = "submit_quiz" /\ art.status = "ok") =>
        /\ art.body.score <= art.body.total_questions
        /\ RatioLeq(Ratio(0, 1), art.body.score_percentage)
        /\ RatioLeq(art.body.score_percentage, Ratio(100, 1))

\* every result names a position of the stored list and reports the question
\* that stands there
ResultsAtValidIndexes(results, questions) ==
    \A i \in 1..Len(results) :
       /\ 0 <= results[i].question_index
       /\ results[i].question_index < Len(questions)
       /\ results[i].question = questions[results[i].question_index + 1].question

AllResults ==
    art.body.theory_results \o art.body.coding_results \o art.body.reorder_results

\* C29: submit_mock_test skips every answer whose question_index is not a
\* position of the stored list (0 <= index < n) and each result reports the
\* question at the submitted index; overall_score is the mean of the result
\* scores, or 0 with no analysis call when there is no result.
C29_InvalidIndexSkipped ==
    (art.handler = "submit_mock_test" /\ art.status = "ok") =>
        /\ ResultsAtValidIndexes(art.body.theory_results,
                                 mock_tests_store[art.id].theory_questions)
        /\ ResultsAtValidIndexes(art.body.coding_results,
                                 mock_tests_store[art.id].coding_questions)
        /\ ResultsAtValidIndexes(art.body.reorder_results,
                                 mock_tests_store[art.id].reorder_questions)
        /\ LET scores == [i \in 1..Len(AllResults) |-> AllResults[i].score]
           IN  IF scores = <<>>
               THEN art.body.overall_score = Ratio(0, 1) /\ art.analysis_calls = 0
               ELSE RatioEq(art.body.overall_score,
                            Ratio(SumRatios(scores).num,
                                  SumRatios(scores).den * Len(scores)))

(***************************************************************************)
(* Claim about document_count (SpecDelete)                                 *)
(***************************************************************************)
\* no upload_pdfs and no deletion is between two of its calls
Quiescent ==
    /\ \A r \in Requests : req[r].pc \in {"idle", "done"}
    /\ del.pc \in {"idle", "done"}

RecordsOf(n) == {d \in DOMAIN documents : documents[d].notebook_id = n}

\* C27: after any sequence of upload_pdfs and delete_document calls on a
\* notebook, uploads that fail part-way through their files included, the
\* notebook's document_count is the number of its Document records and is
\* never negative.
C27_CountIsNumberOfRecords ==
    (Quiescent /\ del.kind # "notebook") =>
        \A n \in DOMAIN document_count :
           /\ document_count[n] = Cardinality(RecordsOf(n))
           /\ document_count[n] >= 0

(***************************************************************************)
(* Claim about generate_doomscroll_cards (FairCards)                       *)
(***************************************************************************)
CardsBounded ==
    /\ dsc.attempts <= Max(Min(3 * dsc.count, Len(dsc.all_chunks)), 0)
    /\ Len(dsc.attempted) = dsc.attempts
    /\ \A i, j \in 1..Len(dsc.attempted) :
          i # j => dsc.attempted[i].chunk_index # dsc.attempted[j].chunk_index
    /\ Len(dsc.cards) <= Max(dsc.count, 0)
    /\ \A k \in 0..(Len(dsc.cards) - 1) :
          dsc.cards[k + 1].type = CARD_TYPES[(k % 8) + 1]

\* C30: generate_doomscroll_cards returns for every count and every outcome
\* of the card generator; it makes at most min(3*count, number of chunks)
\* attempts, passes each chunk to the generator at most once, returns at most
\* count cards, and the k-th returned card (from 0) has type
\* CARD_TYPES[k mod 8].
C30_CardsBoundedAndTyped == []CardsBounded /\ <>(dsc.pc = "done")

C30_Witness ==
    /\ dsc.pc = "done"
    /\ Len(dsc.cards) = 9
    /\ dsc.attempts > Len(dsc.cards)
    /\ dsc.cards[9].type = "fun_fact"
    /\ dsc.attempted[1].card_type = dsc.attempted[2].card_type

====
